---- MODULE Spec2Model ----
(***************************************************************************)
(* A model of the Oracle client of the database abstraction layer          *)
(* (apps/studio/src/lib/db/clients/oracle.ts): the session pool, the       *)
(* multi-statement executor rawExecuteQuery, applyChanges, the cancelable  *)
(* query, the streaming cursors, connect/disconnect, the filtered list     *)
(* operations, the select builder and the read operations; and of the      *)
(* entity list of the application store                                    *)
(* (apps/studio/src/handlers/appDbHandlers.ts).                            *)
(***************************************************************************)
EXTENDS Integers, Sequences, FiniteSets, TLC

VARIABLES
    conn,       \* the client: its connection state and the state of this.pool
    owner,      \* pool: for every session, who has it checked out ("free" if nobody)
    committed,  \* engine: the committed content of the table, key -> cell
    tx,         \* engine: every session's uncommitted changes, key -> cell
    raw,        \* one frame per running rawExecuteQuery call
    ac,         \* the applyChanges call
    qry,        \* the CancelableQuery returned by query(text)
    cur,        \* the streaming cursors
    ls,         \* the last filtered list operation (listTables / listViews)
    fn,         \* the last call of a read operation: its input and its outcome
    st          \* the application store (its entity list)

vars == <<conn, owner, committed, tx, raw, ac, qry, cur, ls, fn, st>>

----------------------------------------------------------------------------
(* Bounds and program constants *)

\* poolMax of the pool configuration
poolMax == 4
\* the most row-level changes (inserts + updates + deletes) in one change set
MaxChanges == 3

Sessions == 1..poolMax
NoSession == 0
Keys == {1, 2}
Vals == {"a", "b"}
NoRow == "norow"
Untouched == "untouched"
Frames == {"f1", "f2", "f3", "f4"}

----------------------------------------------------------------------------
(* Statements, texts and the statement classifier *)

Stmt(kind, key, val, valid) == [kind |-> kind, key |-> key, val |-> val, valid |-> valid]

\* the statement separator as a token of a text
Semi == Stmt(";", 0, "", TRUE)

RECURSIVE JoinQueries(_)
\* queries.join(";")
JoinQueries(queries) ==
    IF Len(queries) = 0 THEN <<>>
    ELSE IF Len(queries) = 1 THEN <<queries[1]>>
    ELSE <<queries[1], Semi>> \o JoinQueries(Tail(queries))

ExecutionType(stmt) ==
    CASE stmt.kind \in {"select", "count", "columns"} -> "LISTING"
      [] stmt.kind \in {"insert", "update", "delete"} -> "MODIFICATION"
      [] stmt.kind = "block" -> "ANON_BLOCK"
      [] OTHER -> "UNKNOWN"

RECURSIVE IdentifyFrom(_, _)
\* the statements of a text: each runs up to and including its separator;
\* acc is the statement collected so far
IdentifyFrom(text, acc) ==
    IF Len(text) = 0
    THEN IF Len(acc) = 0 THEN <<>>
         ELSE <<[text |-> acc, executionType |-> ExecutionType(acc[1])]>>
    ELSE IF Head(text) = Semi
         THEN IF Len(acc) = 0 THEN IdentifyFrom(Tail(text), <<>>)
              ELSE <<[text |-> Append(acc, Semi), executionType |-> ExecutionType(acc[1])]>>
                   \o IdentifyFrom(Tail(text), <<>>)
         ELSE IdentifyFrom(Tail(text), Append(acc, Head(text)))

identify(query) == IdentifyFrom(query, <<>>)

\* a white space character of a statement's text
Space == Stmt(" ", 0, "", TRUE)

\* String.prototype.trimEnd
RECURSIVE trimEnd(_)
trimEnd(query) ==
    IF Len(query) > 0 /\ query[Len(query)] = Space
    THEN trimEnd(SubSeq(query, 1, Len(query) - 1))
    ELSE query

\* a variant: the separator is stripped whatever the statement's type is
maybeStripSemicolon_AnyType(query, i) ==
    IF Len(trimEnd(query)) > 0 /\ trimEnd(query)[Len(trimEnd(query))] = Semi
    THEN SubSeq(trimEnd(query), 1, Len(trimEnd(query)) - 1)
    ELSE query

maybeStripSemicolon(query, i) ==
    IF i.executionType # "ANON_BLOCK"
    THEN IF Len(trimEnd(query)) > 0 /\ trimEnd(query)[Len(trimEnd(query))] = Semi
         THEN SubSeq(trimEnd(query), 1, Len(trimEnd(query)) - 1)
         ELSE query
    ELSE query

----------------------------------------------------------------------------
(* The engine: one table of rows addressed by primary key, with one        *)
(* transaction per session (autoCommit is off)                             *)

CleanTx == [k \in Keys |-> Untouched]

\* what a session sees: the committed rows overlaid with its own changes
View(s) == [k \in Keys |-> IF tx[s][k] = Untouched THEN committed[k] ELSE tx[s][k]]

\* the result of one statement run against the rows `view`; a failed
\* statement changes nothing (statement-level rollback)
EngineExecute(view, queryText) ==
    LET stmt == queryText[1]
        trailing == queryText[Len(queryText)] = Semi
        fail == [ok |-> FALSE, rows |-> <<>>, rowsAffected |-> 0, write |-> FALSE,
                 key |-> stmt.key, cell |-> NoRow]
    IN  IF ~stmt.valid THEN fail
        ELSE IF stmt.kind = "block"
        THEN IF trailing
             THEN [ok |-> TRUE, rows |-> <<>>, rowsAffected |-> 0, write |-> FALSE,
                   key |-> stmt.key, cell |-> NoRow]
             ELSE fail
        ELSE IF trailing THEN fail
        ELSE CASE stmt.kind = "select" ->
                    [ok |-> TRUE,
                     rows |-> IF view[stmt.key] = NoRow THEN <<>>
                              ELSE <<[key |-> stmt.key, val |-> view[stmt.key]]>>,
                     rowsAffected |-> 0, write |-> FALSE, key |-> stmt.key, cell |-> NoRow]
               [] stmt.kind = "count" ->
                    [ok |-> TRUE,
                     rows |-> <<[TOTAL |-> Cardinality({k \in Keys : view[k] # NoRow})]>>,
                     rowsAffected |-> 0, write |-> FALSE, key |-> stmt.key, cell |-> NoRow]
               [] stmt.kind = "columns" ->
                    [ok |-> TRUE, rows |-> <<[COLUMN_ID |-> 1], [COLUMN_ID |-> 2]>>,
                     rowsAffected |-> 0, write |-> FALSE, key |-> stmt.key, cell |-> NoRow]
               [] stmt.kind = "insert" ->
                    IF view[stmt.key] # NoRow THEN fail
                    ELSE [ok |-> TRUE, rows |-> <<>>, rowsAffected |-> 1, write |-> TRUE,
                          key |-> stmt.key, cell |-> stmt.val]
               [] stmt.kind = "update" ->
                    IF view[stmt.key] = NoRow
                    THEN [ok |-> TRUE, rows |-> <<>>, rowsAffected |-> 0, write |-> FALSE,
                          key |-> stmt.key, cell |-> NoRow]
                    ELSE [ok |-> TRUE, rows |-> <<>>, rowsAffected |-> 1, write |-> TRUE,
                          key |-> stmt.key, cell |-> stmt.val]
               [] stmt.kind = "delete" ->
                    [ok |-> TRUE, rows |-> <<>>,
                     rowsAffected |-> IF view[stmt.key] = NoRow THEN 0 ELSE 1,
                     write |-> view[stmt.key] # NoRow, key |-> stmt.key, cell |-> NoRow]
               [] OTHER -> fail

----------------------------------------------------------------------------
(* The pool *)

FreeSessions == {s \in Sessions : owner[s] = "free"}
CheckedOut == {s \in Sessions : owner[s] # "free"}

\* a variant: the pool hands out a session whether it is free or not
NextFree_Any == CHOOSE s \in Sessions : \A t \in Sessions : s <= t

\* sessions are interchangeable: the pool hands out the lowest free one
NextFree == CHOOSE s \in FreeSessions : \A t \in FreeSessions : s <= t

PoolOpen == conn.pool = "open"

----------------------------------------------------------------------------
(* rawExecuteQuery *)

IdleFrame == [pc |-> "idle", infos |-> <<>>, qi |-> 1, results |-> <<>>, c |-> NoSession,
              failed |-> FALSE, acquired |-> 0, commits |-> 0, sent |-> <<>>]

\* the call of rawExecuteQuery(query): classify, then ask the pool for a session
RawCall(f, query) ==
    raw' = [raw EXCEPT ![f] = [IdleFrame EXCEPT !.pc = "getConnection",
                                                 !.infos = identify(query)]]

\* a variant: the statements are executed with autoCommit on
ExecuteAutoCommit_On == TRUE

\* c.execute(queryText, {}): the options set no autoCommit
ExecuteAutoCommit == FALSE

\* a variant: every call runs its statements on one session of the client
\* that is never checked out
RawGetConnection_Shared(f) ==
    /\ raw[f].pc = "getConnection"
    /\ raw' = [raw EXCEPT ![f].c = 1,
                          ![f].acquired = @ + 1,
                          ![f].pc = IF Len(raw[f].infos) = 0 THEN "commit" ELSE "send"]
    /\ UNCHANGED <<conn, owner, committed, tx, ac, qry, cur, ls, fn, st>>

\* const c = await this.pool.getConnection()
\* (it waits while every session is checked out, and fails on a closed pool)
RawGetConnection(f) ==
    /\ raw[f].pc = "getConnection"
    /\ IF PoolOpen
       THEN /\ FreeSessions # {}
            /\ owner' = [owner EXCEPT ![NextFree] = f]
            /\ raw' = [raw EXCEPT ![f].c = NextFree,
                                  ![f].acquired = @ + 1,
                                  ![f].pc = IF Len(raw[f].infos) = 0 THEN "commit" ELSE "send"]
       ELSE /\ raw' = [raw EXCEPT ![f].failed = TRUE, ![f].pc = "threw"]
            /\ UNCHANGED owner
    /\ UNCHANGED <<conn, committed, tx, ac, qry, cur, ls, fn, st>>

\* a variant: the loop walks the statements from the last to the first
RawQueryText_LastFirst(f) ==
    LET j == Len(raw[f].infos) - raw[f].qi + 1
    IN  maybeStripSemicolon(raw[f].infos[j].text, raw[f].infos[j])

\* the statement qi of the loop as it is sent
RawQueryText(f) == maybeStripSemicolon(raw[f].infos[raw[f].qi].text, raw[f].infos[raw[f].qi])

\* c.execute(queryText, {}) is called: the statement is in flight on c
RawSend(f) ==
    /\ raw[f].pc = "send"
    /\ raw' = [raw EXCEPT ![f].pc = "executing",
                          ![f].sent = Append(@, [session |-> raw[f].c, text |-> RawQueryText(f)])]
    /\ UNCHANGED <<conn, owner, committed, tx, ac, qry, cur, ls, fn, st>>

\* the engine answers the statement in flight: its result is pushed, or its
\* error (the statement's, or that of a session closed with its pool) leaves
\* the loop
RawExecuteDone(f) ==
    /\ raw[f].pc = "executing"
    /\ LET c == raw[f].c
           data == EngineExecute(View(c), RawQueryText(f))
           txc == IF data.write THEN [tx[c] EXCEPT ![data.key] = data.cell] ELSE tx[c]
       IN  IF data.ok /\ PoolOpen
           THEN /\ raw' = [raw EXCEPT
                    ![f].results = Append(@, [result |-> [rows |-> data.rows,
                                                          rowsAffected |-> data.rowsAffected],
                                              info |-> raw[f].infos[raw[f].qi]]),
                    ![f].qi = @ + 1,
                    ![f].commits = IF ExecuteAutoCommit THEN @ + 1 ELSE @,
                    ![f].pc = IF raw[f].qi + 1 > Len(raw[f].infos) THEN "commit" ELSE "send"]
                /\ IF ExecuteAutoCommit
                   THEN /\ committed' = [k \in Keys |-> IF txc[k] = Untouched
                                                         THEN committed[k] ELSE txc[k]]
                        /\ tx' = [tx EXCEPT ![c] = CleanTx]
                   ELSE /\ tx' = [tx EXCEPT ![c] = txc]
                        /\ UNCHANGED committed
           ELSE /\ raw' = [raw EXCEPT ![f].failed = TRUE, ![f].pc = "close"]
                /\ UNCHANGED <<committed, tx>>
    /\ UNCHANGED <<conn, owner, ac, qry, cur, ls, fn, st>>

\* await c.commit(), after the loop
RawCommit(f) ==
    /\ raw[f].pc = "commit"
    /\ IF PoolOpen
       THEN /\ committed' = View(raw[f].c)
            /\ tx' = [tx EXCEPT ![raw[f].c] = CleanTx]
            /\ raw' = [raw EXCEPT ![f].commits = @ + 1, ![f].pc = "close"]
       ELSE /\ raw' = [raw EXCEPT ![f].failed = TRUE, ![f].pc = "close"]
            /\ UNCHANGED <<committed, tx>>
    /\ UNCHANGED <<conn, owner, ac, qry, cur, ls, fn, st>>

\* withClosable: the session is closed on every way out of the body; closing
\* a pooled session rolls its open transaction back and returns it to the pool
withClosable(f) ==
    /\ raw[f].pc = "close"
    /\ tx' = [tx EXCEPT ![raw[f].c] = CleanTx]
    /\ owner' = [owner EXCEPT ![raw[f].c] = "free"]
    /\ raw' = [raw EXCEPT ![f].pc = IF raw[f].failed THEN "threw" ELSE "returned"]
    /\ UNCHANGED <<conn, committed, ac, qry, cur, ls, fn, st>>

rawExecuteQuery(f) ==
    \/ RawGetConnection(f)
    \/ RawSend(f)
    \/ RawExecuteDone(f)
    \/ RawCommit(f)
    \/ withClosable(f)

----------------------------------------------------------------------------
(* applyChanges *)

InsertQuery(ins) == Stmt("insert", ins.key, ins.val, TRUE)
\* an update that names a column the table does not have is not valid
UpdateQuery(upd) == Stmt("update", upd.key, upd.val, upd.valid)
DeleteQuery(del) == Stmt("delete", del.key, "", TRUE)
SelectQuery(upd) == Stmt("select", upd.key, "", TRUE)

buildInsertQueries(inserts) == [i \in 1..Len(inserts) |-> InsertQuery(inserts[i])]
buildUpdateQueries(updates) == [i \in 1..Len(updates) |-> UpdateQuery(updates[i])]
buildDeleteQueries(deletes) == [i \in 1..Len(deletes) |-> DeleteQuery(deletes[i])]
buildSelectQueriesFromUpdates(updates) ==
    [i \in 1..Len(updates) |-> SelectQuery(updates[i])]

\* a variant: the updates are put in front of the inserts
ApplyChangesQueries_UpdatesFirst(changes) ==
    buildUpdateQueries(changes.updates)
        \o buildInsertQueries(changes.inserts)
        \o buildDeleteQueries(changes.deletes)
        \o buildSelectQueriesFromUpdates(changes.updates)

\* the batch of applyChanges
ApplyChangesQueries(changes) ==
    buildInsertQueries(changes.inserts)
        \o buildUpdateQueries(changes.updates)
        \o buildDeleteQueries(changes.deletes)
        \o buildSelectQueriesFromUpdates(changes.updates)

\* Array.prototype.slice(start, end)
Slice(arr, start, end) ==
    LET len == Len(arr)
        from == IF start < 0 THEN (IF len + start < 0 THEN 0 ELSE len + start)
                ELSE (IF start > len THEN len ELSE start)
        to == IF end < 0 THEN (IF len + end < 0 THEN 0 ELSE len + end)
              ELSE (IF end > len THEN len ELSE end)
    IN  IF to <= from THEN <<>> ELSE SubSeq(arr, from + 1, to)

\* results.slice(results.length - changes.updates.length, -1)
SelectResults(results, changes) ==
    Slice(results, Len(results) - Len(changes.updates), -1)

InsertChanges == [key : Keys, val : Vals]
UpdateChanges == [key : Keys, val : Vals, valid : BOOLEAN]
DeleteChanges == [key : Keys]

\* the change sets of at most MaxChanges row-level changes
ChangeSets ==
    UNION {[inserts : [1..n[1] -> InsertChanges],
            updates : [1..n[2] -> UpdateChanges],
            deletes : [1..n[3] -> DeleteChanges]] :
        n \in {m \in (0..MaxChanges) \X (0..MaxChanges) \X (0..MaxChanges) :
                  m[1] + m[2] + m[3] <= MaxChanges}}

IdleAc == [pc |-> "idle", changes |-> [inserts |-> <<>>, updates |-> <<>>, deletes |-> <<>>],
           ret |-> <<>>, pre |-> [k \in Keys |-> NoRow]]

\* applyChanges(changes) up to the await of driverExecuteMultiple
ApplyChangesCall ==
    /\ ac.pc = "idle"
    /\ \E changes \in ChangeSets :
        /\ ac' = [pc |-> "await", changes |-> changes, ret |-> <<>>, pre |-> committed]
        /\ RawCall("f1", JoinQueries(ApplyChangesQueries(changes)))
    /\ UNCHANGED <<conn, owner, committed, tx, qry, cur, ls, fn, st>>

\* the batch has run: applyChanges returns the slice of its results
ApplyChangesReturn ==
    /\ ac.pc = "await"
    /\ raw["f1"].pc = "returned"
    /\ ac' = [ac EXCEPT !.pc = "returned", !.ret = SelectResults(raw["f1"].results, ac.changes)]
    /\ UNCHANGED <<conn, owner, committed, tx, raw, qry, cur, ls, fn, st>>

\* the batch has failed: applyChanges fails with the error of the batch
ApplyChangesThrow ==
    /\ ac.pc = "await"
    /\ raw["f1"].pc = "threw"
    /\ ac' = [ac EXCEPT !.pc = "failed"]
    /\ UNCHANGED <<conn, owner, committed, tx, raw, qry, cur, ls, fn, st>>

----------------------------------------------------------------------------
(* query(text): the cancelable query *)

\* the most statements in the text of a query
MaxStmts == 2
\* the most query(text) calls made one after the other on one client
MaxQueries == 5

QueryStmts == {Stmt("select", 1, "", TRUE), Stmt("update", 1, "b", TRUE),
               Stmt("select", 2, "", FALSE)}

QueryTexts == {JoinQueries(stmts) : stmts \in UNION {[1..k -> QueryStmts] : k \in 1..MaxStmts}}

NoQuery == [pc |-> "none", n |-> 0, text |-> <<>>, canceling |-> FALSE,
            connection |-> NoSession, canceled |-> FALSE, discarded |-> FALSE,
            delivered |-> FALSE, thrown |-> FALSE, reportedCanceled |-> FALSE,
            ret |-> <<>>, cancelAt |-> "never", breakOn |-> NoSession]

\* parseResults, as far as the rows and the counts of each result go
parseResults(results) ==
    [i \in 1..Len(results) |->
        [command |-> results[i].info.text,
         rowCount |-> Len(results[i].result.rows),
         affectedRows |-> results[i].result.rowsAffected,
         rows |-> results[i].result.rows]]

\* query(text): a new query object with its own canceling flag, connection
\* and cancelable promise; the session a finished query still holds stays
\* checked out
Query ==
    /\ qry.pc \in {"none", "done"}
    /\ qry.n < MaxQueries
    /\ \E text \in QueryTexts :
          qry' = [NoQuery EXCEPT !.pc = "created", !.n = qry.n + 1, !.text = text]
    /\ owner' = [s \in Sessions |-> IF owner[s] = "query" THEN "leaked" ELSE owner[s]]
    /\ UNCHANGED <<conn, committed, tx, raw, ac, cur, ls, fn, st>>

\* execute() is called and asks the pool for a session
QueryExecute ==
    /\ qry.pc = "created"
    /\ qry' = [qry EXCEPT !.pc = "getConnection"]
    /\ UNCHANGED <<conn, owner, committed, tx, raw, ac, cur, ls, fn, st>>

\* connection = await getConnection(); then cancelable.wait() is called and
\* driverExecuteMultiple(text) is awaited inside the argument of Promise.race
QueryGetConnection ==
    /\ qry.pc = "getConnection"
    /\ PoolOpen
    /\ FreeSessions # {}
    /\ owner' = [owner EXCEPT ![NextFree] = "query"]
    /\ qry' = [qry EXCEPT !.connection = NextFree, !.pc = "await"]
    /\ RawCall("f1", qry.text)
    /\ UNCHANGED <<conn, committed, tx, ac, cur, ls, fn, st>>

\* the phase of execute() a cancel() call falls into
CancelPhase ==
    CASE qry.pc = "created" -> "beforeExecute"
      [] qry.pc = "getConnection" -> "beforeConnection"
      [] qry.pc = "await" /\ raw["f1"].pc \in {"getConnection", "send", "executing"} -> "running"
      [] OTHER -> "late"

\* cancel(): canceling = true; with a connection, connection.break() on the
\* session execute() took itself (the statements run on the session of
\* rawExecuteQuery, which the break does not reach); else cancelable.cancel()
QueryCancel ==
    /\ qry.pc # "none"
    /\ qry' = [qry EXCEPT !.canceling = TRUE,
                          !.canceled = IF qry.connection # NoSession THEN @ ELSE TRUE,
                          !.cancelAt = IF @ = "never" THEN CancelPhase ELSE @,
                          !.breakOn = IF qry.connection # NoSession THEN qry.connection ELSE @]
    /\ UNCHANGED <<conn, owner, committed, tx, raw, ac, cur, ls, fn, st>>

\* a variant: the canceled report is made whenever cancel() was requested
ReportsCanceled_WheneverCanceling(caught) == qry.canceling

\* catch (err) { if (canceling) console.warn(...) else throw err }
ReportsCanceled(caught) == caught /\ qry.canceling

\* how execute() ends: `caught` says that the try block threw (the batch
\* failed, or the race was lost to the rejected cancelable); finally discards
QueryEnd(caught, data) ==
    qry' = [qry EXCEPT !.pc = "done",
                       !.discarded = TRUE,
                       !.delivered = ~caught,
                       !.ret = IF caught THEN <<>> ELSE parseResults(data),
                       !.reportedCanceled = ReportsCanceled(caught),
                       !.thrown = caught /\ ~qry.canceling]

\* driverExecuteMultiple has returned: Promise.race([cancelable.wait(), data])
\* is lost to the cancelable when that was canceled, else it yields the data
QueryReturn ==
    /\ qry.pc = "await"
    /\ raw["f1"].pc = "returned"
    /\ QueryEnd(qry.canceled, raw["f1"].results)
    /\ UNCHANGED <<conn, owner, committed, tx, raw, ac, cur, ls, fn, st>>

\* driverExecuteMultiple has thrown: the catch block runs
QueryCatch ==
    /\ qry.pc = "await"
    /\ raw["f1"].pc = "threw"
    /\ QueryEnd(TRUE, <<>>)
    /\ UNCHANGED <<conn, owner, committed, tx, raw, ac, cur, ls, fn, st>>

----------------------------------------------------------------------------
(* The streaming cursors: selectTopStream, queryStream and the cursor they *)
(* hand back                                                               *)

\* the most rows the statement of a cursor yields
MaxRows == 3

CursorIds == {"c1", "c2"}
ChunkSizes == {1, 2}

NoCursor == [state |-> "none", via |-> "none", chunkSize |-> 1, totalRows |-> "unknown",
             remaining |-> 0, session |-> NoSession, releases |-> 0, closes |-> 0,
             exhausted |-> FALSE]

StreamBusy == \E c \in CursorIds : cur[c].state \in {"counting", "columns"}

\* queryStream(query, chunkSize): the cursor is built on this.pool, nothing runs
queryStream(c) ==
    /\ cur[c].state = "none"
    /\ \E chunkSize \in ChunkSizes :
          cur' = [cur EXCEPT ![c] = [NoCursor EXCEPT !.state = "created", !.via = "queryStream",
                                                    !.chunkSize = chunkSize]]
    /\ UNCHANGED <<conn, owner, committed, tx, raw, ac, qry, ls, fn, st>>

\* selectTopStream: first the count query through driverExecuteSimple
SelectTopStreamCount(c) ==
    /\ cur[c].state = "none"
    /\ ~StreamBusy
    /\ \E chunkSize \in ChunkSizes :
          cur' = [cur EXCEPT ![c] = [NoCursor EXCEPT !.state = "counting",
                                                    !.via = "selectTopStream",
                                                    !.chunkSize = chunkSize]]
    /\ RawCall("f2", <<Stmt("count", 0, "", TRUE)>>)
    /\ UNCHANGED <<conn, owner, committed, tx, ac, qry, ls, fn, st>>

\* selectTopStream: the count is in, listTableColumns runs its query
SelectTopStreamColumns(c) ==
    /\ cur[c].state = "counting"
    /\ raw["f2"].pc = "returned"
    /\ cur' = [cur EXCEPT ![c].state = "columns",
                          ![c].totalRows = raw["f2"].results[1].result.rows[1].TOTAL]
    /\ RawCall("f2", <<Stmt("columns", 0, "", TRUE)>>)
    /\ UNCHANGED <<conn, owner, committed, tx, ac, qry, ls, fn, st>>

\* selectTopStream: the columns are in, the cursor is built on this.pool
SelectTopStreamReturn(c) ==
    /\ cur[c].state = "columns"
    /\ raw["f2"].pc = "returned"
    /\ cur' = [cur EXCEPT ![c].state = "created"]
    /\ UNCHANGED <<conn, owner, committed, tx, raw, ac, qry, ls, fn, st>>

\* a variant of the release: it does not look at whether the cursor is
\* closed already
CursorRelease_Unguarded(c, k) ==
    [k EXCEPT !.state = "Closed", !.session = NoSession, !.releases = @ + 1]

\* the cursor gives its session back, once: a closed cursor has none
CursorRelease(c, k) ==
    IF k.state = "Open"
    THEN [k EXCEPT !.state = "Closed", !.session = NoSession, !.releases = @ + 1]
    ELSE [k EXCEPT !.state = "Closed"]

\* Open: the cursor takes one dedicated session and starts the statement on
\* the server; without a session it fails
CursorStart(c) ==
    /\ cur[c].state = "created"
    /\ IF PoolOpen /\ FreeSessions # {}
       THEN /\ owner' = [owner EXCEPT ![NextFree] = c]
            /\ \E rows \in 0..MaxRows :
                  cur' = [cur EXCEPT ![c].state = "Open", ![c].session = NextFree,
                                     ![c].remaining = rows]
       ELSE /\ ~PoolOpen
            /\ cur' = [cur EXCEPT ![c].state = "failed"]
            /\ UNCHANGED owner
    /\ UNCHANGED <<conn, committed, tx, raw, ac, qry, ls, fn, st>>

\* one fetch of up to chunkSize rows; fewer rows than chunkSize is
\* exhaustion, which closes the cursor
CursorRead(c) ==
    /\ cur[c].state = "Open"
    /\ LET n == IF cur[c].remaining < cur[c].chunkSize THEN cur[c].remaining
                 ELSE cur[c].chunkSize
           k == [cur[c] EXCEPT !.remaining = @ - n]
       IN  IF n < cur[c].chunkSize
           THEN /\ cur' = [cur EXCEPT ![c] = [CursorRelease(c, k) EXCEPT !.exhausted = TRUE]]
                /\ owner' = [owner EXCEPT ![cur[c].session] = "free"]
           ELSE /\ cur' = [cur EXCEPT ![c] = k]
                /\ UNCHANGED owner
    /\ UNCHANGED <<conn, committed, tx, raw, ac, qry, ls, fn, st>>

\* the explicit close of the cursor by its reader
CursorClose(c) ==
    /\ cur[c].state \in {"Open", "Closed"}
    /\ cur[c].closes < 2
    /\ cur' = [cur EXCEPT ![c] = [CursorRelease(c, cur[c]) EXCEPT !.closes = @ + 1]]
    /\ owner' = [s \in Sessions |-> IF owner[s] = c THEN "free" ELSE owner[s]]
    /\ UNCHANGED <<conn, committed, tx, raw, ac, qry, ls, fn, st>>

----------------------------------------------------------------------------
(* connect and disconnect *)

\* swallowed: an error of the driver was caught and dropped
NewClient == [state |-> "Disconnected", pool |-> "undefined", dpc |-> "idle",
              swallowed |-> FALSE]

\* connect(): the base connect step and oracle.initOracleClient(payload),
\* whose error, if it raises one, is caught by `catch { // do nothing }`
ConnectCall ==
    /\ conn.state = "Disconnected"
    /\ conn.pool = "undefined"
    /\ conn.dpc = "idle"
    /\ \E initError \in BOOLEAN :
          conn' = [conn EXCEPT !.state = "Connecting", !.swallowed = initError]
    /\ UNCHANGED <<owner, committed, tx, raw, ac, qry, cur, ls, fn, st>>

\* this.pool = await oracle.createPool(poolConfig), then the version query:
\* the client is connected, or connect() fails and leaves this.pool unset
ConnectPool ==
    /\ conn.state = "Connecting"
    /\ \E ok \in BOOLEAN :
          conn' = IF ok THEN [conn EXCEPT !.state = "Connected", !.pool = "open"]
                  ELSE [conn EXCEPT !.state = "Disconnected"]
    /\ UNCHANGED <<owner, committed, tx, raw, ac, qry, cur, ls, fn, st>>

\* disconnect() is called
DisconnectCall ==
    /\ conn.state \in {"Connected", "Disconnected"}
    /\ conn.dpc = "idle"
    /\ conn' = [conn EXCEPT !.dpc = "poolClose",
                            !.state = IF @ = "Connected" THEN "Disconnecting" ELSE @]
    /\ UNCHANGED <<owner, committed, tx, raw, ac, qry, cur, ls, fn, st>>

\* await this.pool.close(1): the pool drains for a second and is then closed
\* by force, or the call fails (no pool was ever created, or the driver
\* reports an error) and disconnect() ends with that error
DisconnectPoolClose ==
    /\ conn.dpc = "poolClose"
    /\ \E ok \in BOOLEAN :
          /\ ok => conn.pool = "open"
          /\ conn' = IF ok THEN [conn EXCEPT !.pool = "closed", !.dpc = "base"]
                     ELSE [conn EXCEPT !.dpc = "threw"]
    /\ UNCHANGED <<owner, committed, tx, raw, ac, qry, cur, ls, fn, st>>

\* await super.disconnect(): the client is Disconnected
DisconnectBase ==
    /\ conn.dpc = "base"
    /\ conn' = [conn EXCEPT !.state = "Disconnected", !.dpc = "done"]
    /\ UNCHANGED <<owner, committed, tx, raw, ac, qry, cur, ls, fn, st>>

----------------------------------------------------------------------------
(* The filtered list operations: listTables and listViews *)

Schemas == {"HR", "SYS"}
Names == {"A", "B", "C"}

\* the rows of ALL_TABLES and of ALL_VIEWS the session can see
ALL_TABLES == {[OWNER |-> "HR", NAME |-> "A"], [OWNER |-> "HR", NAME |-> "B"],
               [OWNER |-> "HR", NAME |-> "C"], [OWNER |-> "SYS", NAME |-> "A"]}
ALL_VIEWS == {[OWNER |-> "HR", NAME |-> "A"], [OWNER |-> "HR", NAME |-> "B"],
              [OWNER |-> "SYS", NAME |-> "B"], [OWNER |-> "SYS", NAME |-> "C"]}

\* String.prototype.toUpperCase on the schema names, filter types and sort
\* directions in use
toUpperCase(str) ==
    CASE str \in {"hr", "HR"} -> "HR"
      [] str \in {"sys", "SYS"} -> "SYS"
      [] str = "is" -> "IS"
      [] str = "is not" -> "IS NOT"
      [] str = "asc" -> "ASC"
      [] str = "desc" -> "DESC"
      [] OTHER -> str

\* an option of a filter that may be left out: no element, or the one given
Optional(S) == {{}} \cup {{x} : x \in S}
Given(opt) == opt # {}
The(opt) == CHOOSE x \in opt : TRUE

FilterOptions == [schema : Optional({"hr", "HR", "sys"}),
                  only : Optional(SUBSET Names),
                  ignore : Optional(SUBSET Names)]

NoFilter == [schema |-> {}, only |-> {}, ignore |-> {}]

\* listTables: where OWNER = schema, whereIn only, whereNotIn ignore
listTables(filter) ==
    {[schema |-> row.OWNER, name |-> row.NAME, entityType |-> "table"] :
        row \in {r \in ALL_TABLES :
                    /\ Given(filter.schema) => r.OWNER = toUpperCase(The(filter.schema))
                    /\ Given(filter.only) => r.NAME \in The(filter.only)
                    /\ Given(filter.ignore) => r.NAME \notin The(filter.ignore)}}

\* listViews: where OWNER = schema, whereIn only, whereIn ignore
listViews(filter) ==
    {[schema |-> row.OWNER, name |-> row.NAME, entityType |-> "view"] :
        row \in {r \in ALL_VIEWS :
                    /\ Given(filter.schema) => r.OWNER = toUpperCase(The(filter.schema))
                    /\ Given(filter.only) => r.NAME \in The(filter.only)
                    /\ Given(filter.ignore) => r.NAME \in The(filter.ignore)}}

ListTables ==
    /\ \E filter \in FilterOptions :
          ls' = [op |-> "listTables", filter |-> filter, result |-> listTables(filter)]
    /\ UNCHANGED <<conn, owner, committed, tx, raw, ac, qry, cur, fn, st>>

ListViews ==
    /\ \E filter \in FilterOptions :
          ls' = [op |-> "listViews", filter |-> filter, result |-> listViews(filter)]
    /\ UNCHANGED <<conn, owner, committed, tx, raw, ac, qry, cur, fn, st>>

----------------------------------------------------------------------------
(* The read operations: each call is one step that records its input and   *)
(* its outcome in fn; the calls are made one after the other               *)

\* JavaScript's null
Null == "<null>"

\* no call made, or its outcome taken
IdleFn == [op |-> "none"]

\* every ordering of the elements of a finite set
Orderings(S) ==
    {q \in [1..Cardinality(S) -> S] : \A i, j \in 1..Cardinality(S) : q[i] = q[j] => i = j}

\* the responses the engine can give to the statement of getPrimaryKeys:
\* the primary-key columns in the catalog (all_constraints of type 'P' joined
\* with all_cons_columns; HR.C has no primary key) of the table (of the
\* schema, when one is given), ORDER BY table_name, position; rows that tie
\* come in any order
PrimaryKeyResponses(table, schema) ==
    LET ALL_CONS_COLUMNS ==
            {[OWNER |-> "HR", TABLE_NAME |-> "A", COLUMN_NAME |-> "ID", POSITION |-> 1],
             [OWNER |-> "HR", TABLE_NAME |-> "B", COLUMN_NAME |-> "K1", POSITION |-> 1],
             [OWNER |-> "HR", TABLE_NAME |-> "B", COLUMN_NAME |-> "K2", POSITION |-> 2],
             [OWNER |-> "SYS", TABLE_NAME |-> "A", COLUMN_NAME |-> "CODE", POSITION |-> 1]}
        rows == {r \in ALL_CONS_COLUMNS :
                    /\ r.TABLE_NAME = table
                    /\ Given(schema) => r.OWNER = toUpperCase(The(schema))}
    IN  {q \in Orderings(rows) :
            \A i, j \in 1..Len(q) : i < j => q[i].POSITION <= q[j].POSITION}

\* getPrimaryKeys: response.map(row => ({columnName, position}))
getPrimaryKeys(response) ==
    [i \in 1..Len(response) |->
        [columnName |-> response[i].COLUMN_NAME, position |-> response[i].POSITION]]

\* all.length >= 1 ? all[0].columnName : null
getPrimaryKey_First(all) == IF Len(all) >= 1 THEN all[1].columnName ELSE Null

\* getPrimaryKey: all.length === 1 ? all[0].columnName : null
getPrimaryKey(all) == IF Len(all) = 1 THEN all[1].columnName ELSE Null

GetPrimaryKey ==
    /\ fn.op = "none"
    /\ \E table \in Names, schema \in Optional({"hr", "HR", "sys"}) :
          \E response \in PrimaryKeyResponses(table, schema) :
             LET all == getPrimaryKeys(response)
             IN  fn' = [op |-> "getPrimaryKey", table |-> table, schema |-> schema,
                        all |-> all, ret |-> getPrimaryKey(all)]
    /\ UNCHANGED <<conn, owner, committed, tx, raw, ac, qry, cur, ls, st>>

\* the list operations for what the dialect does not have:
\* listMaterializedViews, listRoutines and listCollations return [];
\* listMaterializedViewColumns is a member the class declares without a
\* value, so that calling it raises a TypeError
callUnsupportedList(op) ==
    IF op \in {"listMaterializedViews", "listRoutines", "listCollations"}
    THEN [op |-> op, threw |-> FALSE, ret |-> <<>>]
    ELSE [op |-> op, threw |-> TRUE]

ListUnsupported ==
    /\ fn.op = "none"
    /\ \E op \in {"listMaterializedViews", "listMaterializedViewColumns",
                  "listRoutines", "listCollations"} :
          fn' = callUnsupportedList(op)
    /\ UNCHANGED <<conn, owner, committed, tx, raw, ac, qry, cur, ls, st>>

\* getTableProperties runs getTableKeys on frame f2, listTableIndexes on f3
\* and listTableTriggers on f4: whether these calls have all come to their end
PropertiesSettled ==
    /\ \A f \in {"f2", "f3", "f4"} : raw[f].pc \in {"idle", "returned", "threw"}
    /\ raw["f3"].pc = "returned" => fn.indexes = "columns"

\* getTableProperties: Promise.all starts getTableKeys, listTableIndexes and
\* listTableTriggers together; each sends its statement through
\* driverExecuteSimple.  listTableTriggers calls schema.toUpperCase() first
\* and throws on a schema left out.
GetTableProperties ==
    /\ fn.op = "none"
    /\ \A f \in {"f2", "f3", "f4"} : raw[f].pc \in {"idle", "returned", "threw"}
    /\ \E schema \in Optional({"hr"}) :
          /\ fn' = [op |-> "getTableProperties", schema |-> schema, pc |-> "await",
                    indexes |-> "indexes"]
          /\ raw' = [f \in Frames |->
                        IF f \in {"f2", "f3"} \/ (f = "f4" /\ Given(schema))
                        THEN [IdleFrame EXCEPT !.pc = "getConnection",
                                               !.infos = identify(<<Stmt("columns", 0, "", TRUE)>>)]
                        ELSE IF f = "f4" THEN IdleFrame ELSE raw[f]]
    /\ UNCHANGED <<conn, owner, committed, tx, ac, qry, cur, ls, st>>

\* listTableIndexes: the first response is in, columnSQL is sent
ListTableIndexesColumns ==
    /\ fn.op = "getTableProperties"
    /\ fn.indexes = "indexes"
    /\ raw["f3"].pc = "returned"
    /\ fn' = [fn EXCEPT !.indexes = "columns"]
    /\ RawCall("f3", <<Stmt("columns", 0, "", TRUE)>>)
    /\ UNCHANGED <<conn, owner, committed, tx, ac, qry, cur, ls, st>>

\* Promise.all settles: with the three results, or with the first error
GetTablePropertiesSettle ==
    /\ fn.op = "getTableProperties"
    /\ fn.pc = "await"
    /\ \/ /\ PropertiesSettled
          /\ Given(fn.schema)
          /\ \A f \in {"f2", "f3", "f4"} : raw[f].pc = "returned"
          /\ fn' = [fn EXCEPT !.pc = "returned"]
       \/ /\ ~Given(fn.schema) \/ \E f \in {"f2", "f3", "f4"} : raw[f].pc = "threw"
          /\ fn' = [fn EXCEPT !.pc = "threw"]
    /\ UNCHANGED <<conn, owner, committed, tx, raw, ac, qry, cur, ls, st>>

\* the most columns of a result
MaxCols == 2

\* the results of the driver for a listing: metaData names the columns,
\* of which several may have one name, and every row is an array with one
\* value per column; the result of any other statement has neither
DriverResults ==
    UNION {[metaData : {{metaData}},
            rows : {{rows} : rows \in UNION {[1..n -> [1..Len(metaData) -> {"x", "y"}]] :
                                                n \in 0..(MaxRows - 1)}},
            rowsAffected : {0}] :
              metaData \in UNION {[1..n -> {"ID", "NAME"}] : n \in 1..MaxCols}}
    \cup {[metaData |-> {}, rows |-> {}, rowsAffected |-> 1]}

RECURSIVE SetKeys(_, _, _, _)
\* the object after obj[keys[i]] = values[i] for i, i + 1, ...: an object is
\* the sequence of its <<key, value>> pairs in insertion order; setting a
\* key it has replaces the value in place
SetKeys(obj, keys, values, i) ==
    IF i > Len(keys) THEN obj
    ELSE LET at == {k \in 1..Len(obj) : obj[k][1] = keys[i]}
         IN  SetKeys(IF at = {} THEN Append(obj, <<keys[i], values[i]>>)
                     ELSE [k \in 1..Len(obj) |-> IF k \in at THEN <<keys[i], values[i]>>
                                                 ELSE obj[k]],
                     keys, values, i + 1)

\* a variant: the id of a field is the name of its column
metaToFields_ByName(metaData) ==
    IF Given(metaData)
    THEN [i \in 1..Len(The(metaData)) |->
             [name |-> The(metaData)[i], id |-> <<The(metaData)[i], 0>>]]
    ELSE <<>>

\* metaToFields: id is `c${idx}`, written <<"c", idx>>
metaToFields(metaData) ==
    IF Given(metaData)
    THEN [i \in 1..Len(The(metaData)) |-> [name |-> The(metaData)[i], id |-> <<"c", i - 1>>]]
    ELSE <<>>

\* parseResult, on the result part of a DriverResult
parseResult(result) ==
    LET fields == metaToFields(result.metaData)
        fieldIds == [i \in 1..Len(fields) |-> fields[i].id]
    IN  [rowCount |-> IF Given(result.rows) THEN Len(The(result.rows)) ELSE 0,
         affectedRows |-> result.rowsAffected,
         rows |-> IF Given(result.rows)
                  THEN [r \in 1..Len(The(result.rows)) |->
                           SetKeys(<<>>, fieldIds, The(result.rows)[r], 1)]
                  ELSE <<>>,
         fields |-> metaToFields(result.metaData)]

ParseResult ==
    /\ fn.op = "none"
    /\ \E result \in DriverResults :
          fn' = [op |-> "parseResult", result |-> result, ret |-> parseResult(result)]
    /\ UNCHANGED <<conn, owner, committed, tx, raw, ac, qry, cur, ls, st>>

\* a variant: the rows are returned as the engine gave them
sortBy_None(rows) == rows

\* _.sortBy(rows, 'ordinalPosition'): a stable ascending sort in which the
\* rows without a position (null, here {}) come last
sortBy(rows) ==
    LET before(a, b) == Given(a.ordinalPosition) /\
                           (Given(b.ordinalPosition) =>
                               The(a.ordinalPosition) < The(b.ordinalPosition))
        order == CHOOSE q \in Orderings(1..Len(rows)) :
                    \A i, j \in 1..Len(rows) :
                        i < j => /\ ~before(rows[q[j]], rows[q[i]])
                                 /\ ~before(rows[q[i]], rows[q[j]]) => q[i] < q[j]
    IN  [i \in 1..Len(rows) |-> rows[order[i]]]

\* listTableColumns: the rows of ALL_TAB_COLS of the table and the schema,
\* as far as they are given, come in any order; they are mapped and sorted.
\* A hidden column has no COLUMN_ID.
ListTableColumns ==
    /\ fn.op = "none"
    /\ \E table \in Optional({"A", "B"}), schema \in Optional({"hr", "sys"}) :
          LET ALL_TAB_COLS ==
                  {[OWNER |-> "HR", TABLE_NAME |-> "A", COLUMN_NAME |-> "ID", COLUMN_ID |-> {1}],
                   [OWNER |-> "HR", TABLE_NAME |-> "A", COLUMN_NAME |-> "NAME", COLUMN_ID |-> {2}],
                   [OWNER |-> "HR", TABLE_NAME |-> "A", COLUMN_NAME |-> "SYS_NC", COLUMN_ID |-> {}],
                   [OWNER |-> "HR", TABLE_NAME |-> "B", COLUMN_NAME |-> "K1", COLUMN_ID |-> {1}],
                   [OWNER |-> "SYS", TABLE_NAME |-> "A", COLUMN_NAME |-> "CODE", COLUMN_ID |-> {1}]}
              rows == {r \in ALL_TAB_COLS :
                          /\ Given(table) => r.TABLE_NAME = The(table)
                          /\ Given(schema) => r.OWNER = toUpperCase(The(schema))}
          IN  \E all \in Orderings(rows) :
                 LET result == [i \in 1..Len(all) |->
                                   [ordinalPosition |-> all[i].COLUMN_ID,
                                    schemaName |-> all[i].OWNER,
                                    columnName |-> all[i].COLUMN_NAME,
                                    tableName |-> all[i].TABLE_NAME]]
                 IN  fn' = [op |-> "listTableColumns", table |-> table, schema |-> schema,
                            all |-> all, ret |-> sortBy(result)]
    /\ UNCHANGED <<conn, owner, committed, tx, raw, ac, qry, cur, ls, st>>

\* the catalog views listTableIndexes reads: the name of an index is unique
\* within its owner's schema only
ALL_INDEXES ==
    {[INDEX_NAME |-> "PK_A", TABLE_NAME |-> "A", OWNER |-> "HR", TABLE_OWNER |-> "HR",
      UNIQUENESS |-> "UNIQUE"],
     [INDEX_NAME |-> "IX_A", TABLE_NAME |-> "A", OWNER |-> "HR", TABLE_OWNER |-> "HR",
      UNIQUENESS |-> "NONUNIQUE"],
     [INDEX_NAME |-> "IX_A", TABLE_NAME |-> "A", OWNER |-> "SYS", TABLE_OWNER |-> "SYS",
      UNIQUENESS |-> "NONUNIQUE"]}

ALL_IND_COLUMNS ==
    {[INDEX_OWNER |-> "HR", INDEX_NAME |-> "PK_A", TABLE_NAME |-> "A",
      COLUMN_NAME |-> "ID", COLUMN_POSITION |-> 1, DESCEND |-> "ASC"],
     [INDEX_OWNER |-> "HR", INDEX_NAME |-> "IX_A", TABLE_NAME |-> "A",
      COLUMN_NAME |-> "NAME", COLUMN_POSITION |-> 1, DESCEND |-> "ASC"],
     [INDEX_OWNER |-> "HR", INDEX_NAME |-> "IX_A", TABLE_NAME |-> "A",
      COLUMN_NAME |-> "AGE", COLUMN_POSITION |-> 2, DESCEND |-> "DESC"],
     [INDEX_OWNER |-> "SYS", INDEX_NAME |-> "IX_A", TABLE_NAME |-> "A",
      COLUMN_NAME |-> "CODE", COLUMN_POSITION |-> 1, DESCEND |-> "ASC"]}

\* listTableIndexes, from the rows of its two queries on: the column rows are
\* sorted by COLUMN_POSITION (a stable sort), grouped by INDEX_NAME, and each
\* index row takes the group of its INDEX_NAME, if there is one
listTableIndexes(response, columnResponse) ==
    LET n == Len(columnResponse)
        order == CHOOSE q \in Orderings(1..n) :
                    \A i, j \in 1..n :
                        i < j =>
                          \/ columnResponse[q[i]].COLUMN_POSITION
                                < columnResponse[q[j]].COLUMN_POSITION
                          \/ /\ columnResponse[q[i]].COLUMN_POSITION
                                  = columnResponse[q[j]].COLUMN_POSITION
                             /\ q[i] < q[j]
        sorted == [i \in 1..n |-> columnResponse[order[i]]]
        columnsGrouped(name) == SelectSeq(sorted, LAMBDA c : c.INDEX_NAME = name)
        group(name) == LET g == columnsGrouped(name)
                       IN  [i \in 1..Len(g) |->
                              [name |-> g[i].COLUMN_NAME, order |-> g[i].DESCEND]]
    IN  [idx \in 1..Len(response) |->
            [id |-> idx - 1,
             table |-> response[idx].TABLE_NAME,
             schema |-> response[idx].OWNER,
             name |-> response[idx].INDEX_NAME,
             unique |-> response[idx].UNIQUENESS = "UNIQUE",
             primary |-> response[idx].INDEX_NAME \in {"PK_A"},
             columns |-> IF columnsGrouped(response[idx].INDEX_NAME) = <<>>
                         THEN {}
                         ELSE {group(response[idx].INDEX_NAME)}]]

\* listTableIndexes(table, schema): the first query filters ALL_INDEXES by
\* TABLE_NAME and, with a schema, TABLE_OWNER; the second filters
\* ALL_IND_COLUMNS by whereIn('INDEX_NAME', indexes) alone.  Neither has an
\* ORDER BY: the engine returns the rows in some order
ListTableIndexes ==
    /\ fn.op = "none"
    /\ \E table \in {"A", "B"}, schema \in Optional({"HR", "SYS"}) :
          \E response \in Orderings({[INDEX_NAME |-> r.INDEX_NAME, TABLE_NAME |-> r.TABLE_NAME,
                                      OWNER |-> r.OWNER, UNIQUENESS |-> r.UNIQUENESS] :
                                     r \in {x \in ALL_INDEXES :
                                              /\ x.TABLE_NAME = table
                                              /\ Given(schema) => x.TABLE_OWNER = The(schema)}}) :
            LET indexes == {response[i].INDEX_NAME : i \in 1..Len(response)}
            IN  \E columnResponse \in
                      Orderings({[COLUMN_NAME |-> c.COLUMN_NAME,
                                  COLUMN_POSITION |-> c.COLUMN_POSITION,
                                  DESCEND |-> c.DESCEND, INDEX_NAME |-> c.INDEX_NAME] :
                                 c \in {x \in ALL_IND_COLUMNS : x.INDEX_NAME \in indexes}}) :
                  fn' = [op |-> "listTableIndexes", table |-> table, schema |-> schema,
                         response |-> response,
                         ret |-> listTableIndexes(response, columnResponse)]
    /\ UNCHANGED <<conn, owner, committed, tx, raw, ac, qry, cur, ls, st>>

\* the most tokens of a statement's text
MaxTokens == 4

\* maybeStripSemicolon(q.text, q) on one result of identify: a text that
\* begins with a statement and goes on with separators and white space,
\* typed by its first token
MaybeStripSemicolon ==
    /\ fn.op = "none"
    /\ \E first \in {Stmt("select", 1, "", TRUE), Stmt("update", 1, "b", TRUE),
                     Stmt("block", 1, "b", TRUE)},
          k \in 0..(MaxTokens - 1) :
          \E rest \in [1..k -> {Semi, Space}] :
             LET query == <<first>> \o rest
                 i == [text |-> query, executionType |-> ExecutionType(first)]
             IN  fn' = [op |-> "maybeStripSemicolon", query |-> query, i |-> i,
                        ret |-> maybeStripSemicolon(query, i)]
    /\ UNCHANGED <<conn, owner, committed, tx, raw, ac, qry, cur, ls, st>>

\* the catch block of execute().  An error is an object with an identity
\* and a message; a message is the sequence of its parts, and
\* message.includes(part) says that the part occurs in it
Hint == " - have you tried \"quoting\" the table name?"

Errors ==
    LET messages ==
          {<<"ORA-00942:", "table or view does not exist">>,
           <<"ORA-06550:", "table or view does not exist", "ORA-06512: at line 1">>,
           <<"ORA-00942:", "Table or view does not exist">>,
           <<"ORA-00911:", "invalid character">>,
           <<"ORA-01013:", "user requested cancel of current operation">>,
           <<>>}
    IN  [id : 1..2, message : Optional(messages)]

\* a variant: the hint is appended to every message that exists
messageIncludes_Always(message, part) == TRUE

\* err.message?.includes(part) on a message that exists
messageIncludes(message, part) == \E i \in 1..Len(message) : message[i] = part

\* catch (err) { if (canceling) console.warn(...) else { ...; throw err } }
catchBlock(err, canceling) ==
    IF canceling
    THEN [thrown |-> FALSE, err |-> err]
    ELSE [thrown |-> TRUE,
          err |-> IF /\ Given(err.message)
                     /\ messageIncludes(The(err.message), "table or view does not exist")
                  THEN [err EXCEPT !.message = {Append(The(err.message), Hint)}]
                  ELSE err]

QueryCatchBlock ==
    /\ fn.op = "none"
    /\ \E err \in Errors, canceling \in BOOLEAN :
          fn' = [op |-> "catch", err |-> err, canceling |-> canceling,
                 ret |-> catchBlock(err, canceling)]
    /\ UNCHANGED <<conn, owner, committed, tx, raw, ac, qry, cur, ls, st>>

\* the caller has taken the outcome of the call: the client is ready for
\* the next call
ReadDone ==
    /\ fn.op # "none"
    /\ fn.op = "getTableProperties" => (fn.pc # "await" /\ PropertiesSettled)
    /\ fn' = IdleFn
    /\ UNCHANGED <<conn, owner, committed, tx, raw, ac, qry, cur, ls, st>>

----------------------------------------------------------------------------
(* The select builder: genOrderByString, genFilters, genSelect.  A text is *)
(* a sequence of pieces <<kind, text>>: "sql" for the text of a template   *)
(* or a value interpolated as it is, "identifier" for a quoted identifier, *)
(* "string" for an escaped and quoted string, "literal" for a wrapped      *)
(* caller-given literal.                                                   *)

Sql(text) == <<"sql", text>>
wrapIdentifier(name) == <<"identifier", name>>
escapeString(value) == <<"string", value>>
wrapLiteral(text) == <<"literal", text>>

\* parts[1] seps[2] parts[2] ... seps[n] parts[n], from part i on
RECURSIVE JoinFrom(_, _, _)
JoinFrom(parts, seps, i) ==
    IF i > Len(parts) THEN <<>>
    ELSE (IF i = 1 THEN <<>> ELSE seps[i]) \o parts[i] \o JoinFrom(parts, seps, i + 1)

\* Array.prototype.join(sep)
Join(parts, sep) == JoinFrom(parts, [i \in 1..Len(parts) |-> <<Sql(sep)>>], 1)

\* a JavaScript value of an argument that should be a number: its type
\* and its rendering in a template
JsNumbers ==
    {[t |-> "undefined", v |-> "undefined"], [t |-> "null", v |-> "null"],
     [t |-> "number", v |-> "0"], [t |-> "number", v |-> "10"],
     [t |-> "string", v |-> "10"]}

\* the most entries of a filter list
MaxFilters == 2

\* the filter entries: the value of an "in" filter is an array, the value
\* of any other is a scalar, which an "is"/"is not" filter may leave out
\* (items = <<>>); op is the connective to the entry before
TableFilters ==
    LET values(type) ==
            CASE type = "in" -> {[array |-> TRUE, items |-> q] : q \in {<<"x">>, <<"x", "y">>}}
              [] type \in {"is", "is not"} ->
                    {[array |-> FALSE, items |-> q] : q \in {<<>>, <<"x">>}}
              [] OTHER -> {[array |-> FALSE, items |-> <<"x">>]}
    IN  UNION {[field : {"ID"}, type : {type}, value : values(type), op : Optional({"OR"})] :
                  type \in {"=", "like", "in", "is", "is not"}}

\* String.prototype.includes('is') on the filter types in use
includes_is_Exact(type) == type = "is"
includes_is(type) == type \in {"is", "is not"}

\* joinFilters: the rendered entries joined by each entry's op, AND when
\* it has none
joinFilters(allFilters, filters) ==
    JoinFrom(allFilters,
             [i \in 1..Len(filters) |->
                 <<Sql(IF Given(filters[i].op) THEN The(filters[i].op) ELSE "AND")>>], 1)

\* filters.map((item) => ...) of genFilters: the rendering of each entry
allFilters(filters) ==
    [i \in 1..Len(filters) |->
        LET item == filters[i]
        IN  IF item.type = "in"
            THEN <<wrapIdentifier(item.field), Sql("IN"), Sql("(")>>
                 \o Join([k \in 1..Len(item.value.items) |->
                             <<escapeString(item.value.items[k])>>], ",")
                 \o <<Sql(")")>>
            ELSE IF includes_is(item.type)
            THEN <<wrapIdentifier(item.field), Sql(toUpperCase(item.type)), Sql("NULL")>>
            ELSE <<wrapIdentifier(item.field), Sql(item.type)>>
                 \o [k \in 1..Len(item.value.items) |-> escapeString(item.value.items[k])]]

\* genFilters: filters is absent ({}) or a list
genFilters(filters) ==
    IF Given(filters) /\ Len(The(filters)) > 0
    THEN <<Sql("WHERE")>> \o joinFilters(allFilters(The(filters)), The(filters))
    ELSE <<>>

GenFilters ==
    /\ fn.op = "none"
    /\ \E filters \in Optional(UNION {[1..n -> TableFilters] : n \in 0..MaxFilters}) :
          fn' = [op |-> "genFilters", filters |-> filters,
                 allFilters |-> IF Given(filters) THEN allFilters(The(filters)) ELSE <<>>,
                 ret |-> genFilters(filters)]
    /\ UNCHANGED <<conn, owner, committed, tx, raw, ac, qry, cur, ls, st>>

\* genOrderByString: orderBy is absent ({}) or a list whose items are
\* objects {field, dir} or plain column names (dir = "")
genOrderByString(orderBy) ==
    IF ~Given(orderBy) \/ Len(The(orderBy)) = 0 THEN <<>>
    ELSE <<Sql("ORDER BY")>>
         \o Join([i \in 1..Len(The(orderBy)) |->
                    LET item == The(orderBy)[i]
                    IN  IF item.dir # ""
                        THEN <<wrapIdentifier(item.field), Sql(toUpperCase(item.dir))>>
                        ELSE <<wrapIdentifier(item.field)>>], ",")

\* offset || limit ? ...
offsetString_Either(offset, limit) ==
    IF offset.t = "number" \/ limit.t = "number"
    THEN <<Sql("OFFSET"), Sql(offset.v), Sql("ROWS FETCH NEXT"), Sql(limit.v), Sql("ROWS ONLY")>>
    ELSE <<>>

\* offsetString of genSelect: (_.isNumber(offset) && _.isNumber(limit)) ? ... : ''
offsetString(offset, limit) ==
    IF offset.t = "number" /\ limit.t = "number"
    THEN <<Sql("OFFSET"), Sql(offset.v), Sql("ROWS FETCH NEXT"), Sql(limit.v), Sql("ROWS ONLY")>>
    ELSE <<>>

\* the projection of genSelect, always the count expression
Projection_CountOnly(count, selects) == <<Sql("COUNT(1) as TOTAL")>>

\* count ? 'COUNT(1) as TOTAL' : selectFormatted.join(', ')
Projection(count, selects) ==
    IF count THEN <<Sql("COUNT(1) as TOTAL")>>
    ELSE Join([i \in 1..Len(selects) |->
                  IF selects[i] = "*" THEN <<Sql("*")>> ELSE <<wrapIdentifier(selects[i])>>], ", ")

\* a variant: the count query leaves out the ORDER BY and pagination clauses
genSelect_CountUnordered(table, offset, limit, orderBy, filters, schema, count, selects) ==
    LET filterString == IF filters.string
                        THEN <<Sql("WHERE"), wrapLiteral(filters.text)>>
                        ELSE genFilters(filters.list)
        schemaString == IF Given(schema) THEN <<wrapIdentifier(The(schema)), Sql(".")>> ELSE <<>>
        baseSQL == <<Sql("FROM")>> \o schemaString \o <<wrapIdentifier(table)>> \o filterString
    IN  IF count
        THEN <<Sql("SELECT")>> \o Projection(count, selects) \o baseSQL
        ELSE <<Sql("SELECT")>> \o Projection(count, selects) \o baseSQL
             \o genOrderByString(orderBy) \o offsetString(offset, limit)

\* genSelect: filters is [string |-> TRUE, text |-> the raw filter] or
\* [string |-> FALSE, list |-> the optional filter list]
genSelect(table, offset, limit, orderBy, filters, schema, count, selects) ==
    LET filterString == IF filters.string
                        THEN <<Sql("WHERE"), wrapLiteral(filters.text)>>
                        ELSE genFilters(filters.list)
        schemaString == IF Given(schema) THEN <<wrapIdentifier(The(schema)), Sql(".")>> ELSE <<>>
        baseSQL == <<Sql("FROM")>> \o schemaString \o <<wrapIdentifier(table)>> \o filterString
    IN  <<Sql("SELECT")>> \o Projection(count, selects) \o baseSQL
        \o genOrderByString(orderBy) \o offsetString(offset, limit)

GenSelect ==
    /\ fn.op = "none"
    /\ \E offset \in JsNumbers, limit \in JsNumbers, count \in BOOLEAN,
          schema \in Optional({"hr"}),
          selects \in {<<"*">>, <<"ID", "NAME">>},
          orderBy \in Optional({<<>>, <<[field |-> "ID", dir |-> "desc"], [field |-> "NAME", dir |-> ""]>>}),
          filters \in {[string |-> TRUE, text |-> "ID > 1"],
                       [string |-> FALSE, list |-> {}],
                       [string |-> FALSE,
                        list |-> {<<[field |-> "ID", type |-> "=",
                                     value |-> [array |-> FALSE, items |-> <<"x">>],
                                     op |-> {}]>>}]} :
          fn' = [op |-> "genSelect", table |-> "A", offset |-> offset, limit |-> limit,
                 orderBy |-> orderBy, filters |-> filters, schema |-> schema,
                 count |-> count, selects |-> selects,
                 ret |-> genSelect("A", offset, limit, orderBy, filters, schema, count, selects)]
    /\ UNCHANGED <<conn, owner, committed, tx, raw, ac, qry, cur, ls, st>>

\* the most rows of a chunk handed to the exporter
MaxChunk == 2

\* a variant: the values of an object in the alphabetical order of its keys
ObjectValues_ByKey(obj) ==
    LET order == CHOOSE q \in Orderings(1..Len(obj)) :
                    \A i, j \in 1..Len(obj) :
                        i < j => <<obj[q[i]][1], obj[q[j]][1]>> \in
                                    {<<"ID", "ID">>, <<"ID", "NAME">>, <<"NAME", "NAME">>}
    IN  [i \in 1..Len(obj) |-> obj[order[i]][2]]

\* Object.values of an object, the sequence of its <<key, value>> pairs
ObjectValues(obj) == [i \in 1..Len(obj) |-> obj[i][2]]

\* CsvExporter.getHeader: Object.keys(firstRow).join(delimiter), or
\* undefined.  A joined line is the sequence of its fields with the
\* delimiter between them; join renders null as the empty string
getHeader(firstRow, outputOptions) ==
    IF Given(firstRow) /\ outputOptions.header
    THEN LET keys == [i \in 1..Len(The(firstRow)) |-> <<The(firstRow)[i][1]>>]
         IN  {JoinFrom(keys, [i \in 1..Len(keys) |-> <<outputOptions.delimiter>>], 1)}
    ELSE {}

\* CsvExporter.writeChunkToFile: the contents passed to writeLineToFile, one
\* call per row of data, in the order of the calls
writeChunkToFile(data, outputOptions) ==
    [r \in 1..Len(data) |->
        LET values == [i \in 1..Len(data[r]) |->
                          <<IF ObjectValues(data[r])[i] = Null THEN ""
                            ELSE ObjectValues(data[r])[i]>>]
        IN  JoinFrom(values, [i \in 1..Len(values) |-> <<outputOptions.delimiter>>], 1)]

\* an export step: getHeader(firstRow), then writeChunkToFile(data) for a
\* chunk of rows, each row an object whose keys are in the order in which
\* the columns were set
CsvExport ==
    /\ fn.op = "none"
    /\ LET rows == UNION {{<<<<"ID", id>>, <<"NAME", name>>>>,
                           <<<<"NAME", name>>, <<"ID", id>>>>} :
                          id \in {"1", "2"}, name \in {"x", Null}}
       IN  \E firstRow \in Optional(rows), header \in BOOLEAN, delimiter \in {",", ";"},
              n \in 0..MaxChunk :
              \E data \in [1..n -> rows] :
                 LET outputOptions == [header |-> header, delimiter |-> delimiter]
                 IN  fn' = [op |-> "csvExport", firstRow |-> firstRow,
                            outputOptions |-> outputOptions, data |-> data,
                            header |-> getHeader(firstRow, outputOptions),
                            written |-> writeChunkToFile(data, outputOptions)]
    /\ UNCHANGED <<conn, owner, committed, tx, raw, ac, qry, cur, ls, st>>

\* driverExecuteSimple: every row array becomes an object keyed by the
\* names of metaData (nuRow[field] = item)
driverExecuteSimple(result) ==
    [r \in 1..Len(The(result.rows)) |->
        SetKeys(<<>>, The(result.metaData), The(result.rows)[r], 1)]

\* selectTop: the engine answers the query of genSelect with one column per
\* entry of selects (the columns ID, NAME of the table for '*');
\* fields = Object.keys(result[0] || {})
SelectTop ==
    /\ fn.op = "none"
    /\ \E selects \in {<<"*">>, <<"ID">>, <<"ID", "NAME">>, <<"NAME", "ID">>, <<"ID", "ID">>} :
       \E data \in {d \in DriverResults :
                        /\ Given(d.metaData)
                        /\ The(d.metaData) = IF selects = <<"*">> THEN <<"ID", "NAME">>
                                             ELSE selects} :
          LET result == driverExecuteSimple(data)
              first == IF Len(result) > 0 THEN result[1] ELSE <<>>
          IN  fn' = [op |-> "selectTop", selects |-> selects, data |-> data,
                     query |-> genSelect("A", [t |-> "number", v |-> "0"],
                                         [t |-> "number", v |-> "10"], {},
                                         [string |-> FALSE, list |-> {}], {"hr"}, FALSE, selects),
                     result |-> result,
                     fields |-> [k \in 1..Len(first) |-> first[k][1]]]
    /\ UNCHANGED <<conn, owner, committed, tx, raw, ac, qry, cur, ls, st>>

----------------------------------------------------------------------------
(* The application store: the entity list state.tables and its mutations   *)

\* the most entities in a list
MaxTables == 2

\* the entities: an identity (schema, name, entityType) and the column
\* list, which may be unset ({})
TableOrView ==
    {[schema |-> "HR", name |-> id[1], entityType |-> id[2], columns |-> columns] :
        id \in {<<"A", "table">>, <<"A", "view">>, <<"B", "table">>},
        columns \in Optional({<<>>, <<"c1">>})}

\* the identity tablesMatch compares
Identity(t) == <<t.schema, t.name, t.entityType>>

\* the identities of a list, and whether no two of its entries share one
Passed(list) ==
    [ids |-> {Identity(list[i]) : i \in 1..Len(list)},
     distinct |-> \A i, j \in 1..Len(list) : Identity(list[i]) = Identity(list[j]) => i = j]

tablesMatch(t, t2) ==
    /\ t2.name = t.name
    /\ t2.schema = t.schema
    /\ t2.entityType = t.entityType

\* a variant: the list is added to the stored entities
tables_Added(state, list) == state.tables \o list

\* the tables mutation: the new value of state.tables.  Object.assign
\* writes into the stored entity itself, so that entries of the new list
\* that match the same stored entity end as one object, with the fields
\* assigned last.
tables(state, list) ==
    IF Len(state.tables) = 0 THEN list
    ELSE LET assigned(t) == [t EXCEPT !.columns = IF Given(@) THEN @ ELSE {<<>>}]
             findIndex(t) ==
                IF \E j \in 1..Len(state.tables) : tablesMatch(state.tables[j], t)
                THEN CHOOSE j \in 1..Len(state.tables) :
                        /\ tablesMatch(state.tables[j], t)
                        /\ \A k \in 1..(j - 1) : ~tablesMatch(state.tables[k], t)
                ELSE 0
             lastOn(i) == CHOOSE k \in i..Len(list) :
                             /\ findIndex(list[k]) = findIndex(list[i])
                             /\ \A m \in (k + 1)..Len(list) :
                                   findIndex(list[m]) # findIndex(list[i])
         IN  [i \in 1..Len(list) |->
                IF findIndex(list[i]) > 0 THEN assigned(list[lastOn(i)])
                ELSE assigned(list[i])]

CommitTables ==
    /\ \E list \in UNION {[1..n -> TableOrView] : n \in 0..MaxTables} :
          st' = [st EXCEPT !.tables = tables(st, list), !.tablesInitialLoaded = TRUE,
                           !.mutation = "tables", !.passed = Passed(list)]
    /\ UNCHANGED <<conn, owner, committed, tx, raw, ac, qry, cur, ls, fn>>

\* the table mutation: the matching entry is replaced, else the entity is
\* appended
CommitTable ==
    /\ \E t \in TableOrView :
          LET matches == {j \in 1..Len(st.tables) : tablesMatch(st.tables[j], t)}
          IN  /\ matches = {} => Len(st.tables) < MaxTables
              /\ st' = [st EXCEPT
                          !.tables = IF matches # {}
                                     THEN [@ EXCEPT ![CHOOSE j \in matches :
                                                        \A k \in matches : j <= k] = t]
                                     ELSE Append(@, t),
                          !.mutation = "table", !.passed = Passed(<<>>)]
    /\ UNCHANGED <<conn, owner, committed, tx, raw, ac, qry, cur, ls, fn>>

CommitUnloadTables ==
    /\ st' = [st EXCEPT !.tables = <<>>, !.tablesInitialLoaded = FALSE,
                        !.mutation = "unloadTables", !.passed = Passed(<<>>)]
    /\ UNCHANGED <<conn, owner, committed, tx, raw, ac, qry, cur, ls, fn>>

\* the most dispatches of updateTables in flight together
MaxDispatches == 2

Dispatches == 1..MaxDispatches

\* the dispatches of updateTables that have started and not ended
InFlight == {d \in Dispatches : st.updating[d].pc \notin {"idle", "done", "failed"}}

\* dispatch('updateTables'): commit("tablesLoading", "Loading tables..."),
\* then connection.listTables(schema) is awaited
UpdateTables(d) ==
    /\ st.updating[d].pc \in {"idle", "done", "failed"}
    /\ st' = [st EXCEPT !.tablesLoading = "Loading tables...",
                        !.updating[d] = [pc |-> "listTables", tables |-> <<>>]]
    /\ UNCHANGED <<conn, owner, committed, tx, raw, ac, qry, cur, ls, fn>>

\* the end of updateTables: after the loop commit("tablesLoading", `Loading
\* n tables`) and commit('tables', tables); on every way out, the finally
\* block's commit("tablesLoading", null)
updateTablesEnd(d, list, ok) ==
    IF ok
    THEN [st EXCEPT !.tables = tables(st, list), !.tablesInitialLoaded = TRUE,
                    !.mutation = "tables", !.passed = Passed(list),
                    !.tablesLoading = Null,
                    !.updating[d] = [pc |-> "done", tables |-> <<>>]]
    ELSE [st EXCEPT !.tablesLoading = Null,
                    !.updating[d] = [pc |-> "failed", tables |-> <<>>]]

\* an awaited list call of the connection settles: listTables, listViews,
\* listMaterializedViews in turn, each entity given its entityType.  After the
\* last the loop looks every entity up in state.tables and awaits the
\* columns of those whose match has columns; with none to await the action
\* runs to its end
UpdateTablesAwait(d) ==
    /\ st.updating[d].pc \in {"listTables", "listViews", "listMaterializedViews"}
    /\ \E ok \in BOOLEAN :
          LET u == st.updating[d]
              entity(type) == [schema |-> "HR", name |-> "A", entityType |-> type,
                               columns |-> {}]
              match(t) == {j \in 1..Len(st.tables) :
                             /\ tablesMatch(st.tables[j], t)
                             /\ \A k \in 1..(j - 1) : ~tablesMatch(st.tables[k], t)}
              loads(t) == \E j \in match(t) : /\ Given(st.tables[j].columns)
                                              /\ Len(The(st.tables[j].columns)) > 0
          IN  st' = CASE ~ok -> updateTablesEnd(d, u.tables, FALSE)
                      [] ok /\ u.pc = "listTables" ->
                            [st EXCEPT !.updating[d] =
                                [pc |-> "listViews", tables |-> <<entity("table")>>]]
                      [] ok /\ u.pc = "listViews" ->
                            [st EXCEPT !.updating[d] =
                                [pc |-> "listMaterializedViews",
                                 tables |-> Append(u.tables, entity("view"))]]
                      [] ok /\ u.pc = "listMaterializedViews" ->
                            IF \E i \in 1..Len(u.tables) : loads(u.tables[i])
                            THEN [st EXCEPT !.updating[d] = [u EXCEPT !.pc = "columns"]]
                            ELSE updateTablesEnd(d, u.tables, TRUE)
    /\ UNCHANGED <<conn, owner, committed, tx, raw, ac, qry, cur, ls, fn>>

\* the awaited listTableColumns calls of the loop settle: the entities whose
\* match in state.tables has columns get their column list, and the action
\* runs to its end
UpdateTablesColumns(d) ==
    /\ st.updating[d].pc = "columns"
    /\ \E ok \in BOOLEAN :
          LET u == st.updating[d]
              loads(t) == \E j \in 1..Len(st.tables) :
                             /\ tablesMatch(st.tables[j], t)
                             /\ \A k \in 1..(j - 1) : ~tablesMatch(st.tables[k], t)
                             /\ Given(st.tables[j].columns)
                             /\ Len(The(st.tables[j].columns)) > 0
              list == [i \in 1..Len(u.tables) |->
                         IF loads(u.tables[i])
                         THEN [u.tables[i] EXCEPT !.columns = {<<"c1">>}]
                         ELSE u.tables[i]]
          IN  st' = updateTablesEnd(d, list, ok)
    /\ UNCHANGED <<conn, owner, committed, tx, raw, ac, qry, cur, ls, fn>>

\* the entities the pin actions are dispatched with
Pinnable == [entityType : {"table", "routine"}, name : {"A", "B"}]

\* the pin actions: each sets the pinned field of the entity it is given
\* and commits one mutation with that entity; st.pinned is the pinned field
\* of each entity (unset until an action sets it), st.dispatched the last
\* action with its entity and the mutation it committed
PinTable ==
    /\ \E table \in {e \in Pinnable : e.entityType = "table"} :
          st' = [st EXCEPT !.pinned[table] = {TRUE},
                           !.dispatched = [action |-> "pinTable", entity |-> {table},
                                           commit |-> "addPinned"]]
    /\ UNCHANGED <<conn, owner, committed, tx, raw, ac, qry, cur, ls, fn>>

UnpinTable ==
    /\ \E table \in {e \in Pinnable : e.entityType = "table"} :
          st' = [st EXCEPT !.pinned[table] = {FALSE},
                           !.dispatched = [action |-> "unpinTable", entity |-> {table},
                                           commit |-> "removePinned"]]
    /\ UNCHANGED <<conn, owner, committed, tx, raw, ac, qry, cur, ls, fn>>

PinRoutine ==
    /\ \E routine \in {e \in Pinnable : e.entityType = "routine"} :
          st' = [st EXCEPT !.pinned[routine] = {TRUE},
                           !.dispatched = [action |-> "pinRoutine", entity |-> {routine},
                                           commit |-> "addPinned"]]
    /\ UNCHANGED <<conn, owner, committed, tx, raw, ac, qry, cur, ls, fn>>

UnpinRoutine ==
    /\ \E routine \in {e \in Pinnable : e.entityType = "routine"} :
          st' = [st EXCEPT !.pinned[routine] = {TRUE},
                           !.dispatched = [action |-> "unpinRoutine", entity |-> {routine},
                                           commit |-> "addPinned"]]
    /\ UNCHANGED <<conn, owner, committed, tx, raw, ac, qry, cur, ls, fn>>

\* the connect action of the store.  st.connecting is the dispatch of
\* connect: where it stands, its config, the 'conn/create' requests it has
\* sent, whether 'conn/create' has succeeded, and the error it threw

\* a variant: the action goes on whatever state.username is
hasUsername_Always(state) == TRUE

\* if (context.state.username): null and the empty string are falsy
hasUsername(state) == Given(state.username) /\ The(state.username) # ""

\* fetchUsername: commit('setUsername', name)
SetUsername ==
    /\ \E name \in {"", "u"} : st' = [st EXCEPT !.username = {name}]
    /\ UNCHANGED <<conn, owner, committed, tx, raw, ac, qry, cur, ls, fn>>

\* dispatch('connect', config): without a username it throws at once; with
\* one it sends 'conn/create' and awaits the answer
StoreConnect ==
    /\ st.connecting.pc \in {"idle", "done", "failed"}
    /\ st.updating[1].pc \in {"idle", "done", "failed"}
    /\ \E config \in [connectionType : {"oracle", "sqlite"}] :
          st' = [st EXCEPT !.connecting =
                    IF hasUsername(st)
                    THEN [pc |-> "conn/create", config |-> config, sent |-> 1,
                          created |-> FALSE, error |-> "none"]
                    ELSE [pc |-> "failed", config |-> config, sent |-> 0,
                          created |-> FALSE, error |-> "No username provided"]]
    /\ UNCHANGED <<conn, owner, committed, tx, raw, ac, qry, cur, ls, fn>>

\* an await of connect settles: 'conn/create'; the three questions to the
\* connection, followed by the commits (connectionType, connected,
\* newConnection among them); updateDatabaseList, followed by the dispatch
\* of updateTables; updateTables; updateRoutines.  A rejection leaves the
\* action at that await
StoreConnectAwait ==
    /\ st.connecting.pc \in {"conn/create", "connection", "updateDatabaseList",
                             "updateTables", "updateRoutines"}
    /\ st.connecting.pc = "updateTables" => st.updating[1].pc \in {"done", "failed"}
    /\ \E settled \in BOOLEAN :
          LET c == st.connecting
              ok == IF c.pc = "updateTables" THEN st.updating[1].pc = "done" ELSE settled
          IN  st' = CASE ~ok -> [st EXCEPT !.connecting = [c EXCEPT !.pc = "failed",
                                                                  !.error = c.pc]]
                      [] ok /\ c.pc = "conn/create" ->
                            [st EXCEPT !.connecting = [c EXCEPT !.pc = "connection",
                                                                !.created = TRUE]]
                      [] ok /\ c.pc = "connection" ->
                            [st EXCEPT !.connectionType = {c.config.connectionType},
                                       !.connected = TRUE,
                                       !.usedConfig = {c.config},
                                       !.connecting = [c EXCEPT !.pc = "updateDatabaseList"]]
                      [] ok /\ c.pc = "updateDatabaseList" ->
                            [st EXCEPT !.tablesLoading = "Loading tables...",
                                       !.updating[1] = [pc |-> "listTables", tables |-> <<>>],
                                       !.connecting = [c EXCEPT !.pc = "updateTables"]]
                      [] ok /\ c.pc = "updateTables" ->
                            [st EXCEPT !.connecting = [c EXCEPT !.pc = "updateRoutines"]]
                      [] ok /\ c.pc = "updateRoutines" ->
                            [st EXCEPT !.connecting = [c EXCEPT !.pc = "done"]]
    /\ UNCHANGED <<conn, owner, committed, tx, raw, ac, qry, cur, ls, fn>>

\* dispatch('disconnect'): commit('clearConnection')
StoreDisconnect ==
    /\ st.connecting.pc \in {"idle", "done", "failed"}
    /\ st' = [st EXCEPT !.usedConfig = {}, !.connected = FALSE, !.tables = <<>>,
                        !.mutation = "clearConnection", !.passed = Passed(<<>>)]
    /\ UNCHANGED <<conn, owner, committed, tx, raw, ac, qry, cur, ls, fn>>

----------------------------------------------------------------------------
(* The appdb save handler.  A store is the sequence of its records, each
   with an id, a field `a` the saved objects may carry and a field `b` they
   do not carry; an entity in memory has its id set or not *)

\* the most records of a store before a call, and the most objects of a call
MaxRecords == 2

\* new cls(init): the fields of init, defaults for the others
newCls(init) ==
    [id |-> init.id, a |-> IF Given(init.a) THEN The(init.a) ELSE "d", b |-> "d"]

\* cls.merge(dbEnt, e): the fields e has are copied over those of dbEnt
merge(dbEnt, e) ==
    [dbEnt EXCEPT !.id = IF Given(e.id) THEN e.id ELSE @,
                  !.a = IF Given(e.a) THEN The(e.a) ELSE @]

\* findOne(id) / dbEntities.find((v) => v.id === e.id): the record as an
\* entity, if there is one
findOne(store, id) ==
    {[id |-> {store[k].id}, a |-> store[k].a, b |-> store[k].b] :
        k \in {j \in 1..Len(store) : Given(id) /\ store[j].id = The(id)}}

\* a variant: every saved object becomes a new entity
saveEntity_New(dbEnt, e) == newCls(e)

\* the entity the handler saves for the object e: the stored one merged
\* with e when its id is found, else a new one
saveEntity(dbEnt, e) ==
    IF Given(dbEnt) /\ Given(e.id) THEN merge(The(dbEnt), e) ELSE newCls(e)

\* save() of an entity: the record of its id is updated, or a record is
\* inserted, with the next id when the entity has none.  Ids are handed out
\* by a counter that never goes back: the next id is above the ids of the
\* records and above every id an object can carry from an earlier save
save(store, ent) ==
    LET at == {k \in 1..Len(store) : Given(ent.id) /\ store[k].id = The(ent.id)}
        ids == {store[k].id : k \in 1..Len(store)} \cup {MaxRecords + 1}
        next == 1 + CHOOSE m \in ids : \A id \in ids : id <= m
        row == [id |-> IF Given(ent.id) THEN The(ent.id) ELSE next, a |-> ent.a, b |-> ent.b]
    IN  IF at # {} THEN [k \in 1..Len(store) |-> IF k \in at THEN row ELSE store[k]]
        ELSE Append(store, row)

\* 'appdb/<name>/save': the store after the call for the objects of obj (the
\* one object, or the entries of the array in their order; entries with the
\* id of one record are merged into the one entity of that record)
RECURSIVE appdbSave(_, _)
appdbSave(store, obj) ==
    IF Len(obj) = 0 THEN store
    ELSE appdbSave(save(store, saveEntity(findOne(store, Head(obj).id), Head(obj))),
                   Tail(obj))

\* a save call on a store with one record per id; an array does not carry
\* twice an id the store does not have
AppDbSave ==
    /\ fn.op = "none"
    /\ LET records == [id : 1..MaxRecords, a : {"d", "x"}, b : {"d", "x"}]
           objects == [id : Optional(1..(MaxRecords + 1)), a : Optional({"x"})]
       IN  \E n \in 0..MaxRecords, m \in 0..MaxRecords, isArray \in BOOLEAN :
             \E store \in [1..n -> records], obj \in [1..m -> objects] :
                /\ \A i, j \in 1..n : store[i].id = store[j].id => i = j
                /\ ~isArray => m = 1
                /\ \A i, j \in 1..m :
                      (/\ i # j
                       /\ obj[i].id = obj[j].id
                       /\ Given(obj[i].id))
                      => findOne(store, obj[i].id) # {}
                /\ fn' = [op |-> "appdbSave", store |-> store, obj |-> obj,
                          isArray |-> isArray, ret |-> appdbSave(store, obj)]
    /\ UNCHANGED <<conn, owner, committed, tx, raw, ac, qry, cur, ls, st>>

----------------------------------------------------------------------------
(* Idle values of the parts a specification does not exercise *)

ConnectedClient == [state |-> "Connected", pool |-> "open", dpc |-> "idle",
                    swallowed |-> FALSE]
IdleCur == [c \in CursorIds |-> NoCursor]
IdleLs == [op |-> "none", filter |-> NoFilter, result |-> {}]
\* mutation is the last mutation committed
EmptyStore == [tables |-> <<>>, tablesInitialLoaded |-> FALSE, mutation |-> "none",
               passed |-> Passed(<<>>),
               username |-> {}, connected |-> FALSE, connectionType |-> {},
               usedConfig |-> {},
               connecting |-> [pc |-> "idle", config |-> [connectionType |-> "oracle"],
                               sent |-> 0, created |-> FALSE, error |-> "none"],
               pinned |-> [e \in Pinnable |-> {}],
               dispatched |-> [action |-> "none", entity |-> {}, commit |-> "none"],
               tablesLoading |-> Null,
               updating |-> [d \in Dispatches |-> [pc |-> "idle", tables |-> <<>>]]]

InitTables == [Keys -> {NoRow, "a"}]

----------------------------------------------------------------------------
(* SpecBatch: one applyChanges call on a connected client, for every       *)
(* change set of at most MaxChanges changes and every content of the table *)

InitBatch ==
    /\ conn = ConnectedClient
    /\ owner = [s \in Sessions |-> "free"]
    /\ committed \in InitTables
    /\ tx = [s \in Sessions |-> CleanTx]
    /\ raw = [f \in Frames |-> IdleFrame]
    /\ ac = IdleAc
    /\ qry = NoQuery
    /\ cur = IdleCur
    /\ ls = IdleLs
    /\ fn = IdleFn
    /\ st = EmptyStore

NextBatch ==
    \/ ApplyChangesCall
    \/ rawExecuteQuery("f1")
    \/ ApplyChangesReturn
    \/ ApplyChangesThrow

SpecBatch == InitBatch /\ [][NextBatch]_vars

----------------------------------------------------------------------------
(* SpecQuery: up to MaxQueries cancelable queries made one after the other *)
(* on a connected client, cancel() arriving at any moment                  *)

InitQuery ==
    /\ conn = ConnectedClient
    /\ owner = [s \in Sessions |-> "free"]
    /\ committed = [k \in Keys |-> "a"]
    /\ tx = [s \in Sessions |-> CleanTx]
    /\ raw = [f \in Frames |-> IdleFrame]
    /\ ac = IdleAc
    /\ qry = NoQuery
    /\ cur = IdleCur
    /\ ls = IdleLs
    /\ fn = IdleFn
    /\ st = EmptyStore

NextQuery ==
    \/ Query
    \/ QueryExecute
    \/ QueryGetConnection
    \/ QueryCancel
    \/ rawExecuteQuery("f1")
    \/ QueryReturn
    \/ QueryCatch

SpecQuery == InitQuery /\ [][NextQuery]_vars

----------------------------------------------------------------------------
(* SpecConn: one lifetime of a client, from connect to disconnect, with    *)
(* streaming cursors opened, read and closed in between                    *)

InitConn ==
    /\ conn = NewClient
    /\ owner = [s \in Sessions |-> "free"]
    /\ committed = [k \in Keys |-> "a"]
    /\ tx = [s \in Sessions |-> CleanTx]
    /\ raw = [f \in Frames |-> IdleFrame]
    /\ ac = IdleAc
    /\ qry = NoQuery
    /\ cur = IdleCur
    /\ ls = IdleLs
    /\ fn = IdleFn
    /\ st = EmptyStore

NextConn ==
    \/ ConnectCall
    \/ ConnectPool
    \/ DisconnectCall
    \/ DisconnectPoolClose
    \/ DisconnectBase
    \/ \E c \in CursorIds :
          \/ conn.state = "Connected" /\ queryStream(c)
          \/ conn.state = "Connected" /\ SelectTopStreamCount(c)
          \/ SelectTopStreamColumns(c)
          \/ SelectTopStreamReturn(c)
          \/ CursorStart(c)
          \/ CursorRead(c)
          \/ CursorClose(c)
    \/ rawExecuteQuery("f2")

SpecConn == InitConn /\ [][NextConn]_vars

----------------------------------------------------------------------------
(* SpecList: listTables and listViews on a connected client, for every     *)
(* filter                                                                  *)

InitList ==
    /\ conn = ConnectedClient
    /\ owner = [s \in Sessions |-> "free"]
    /\ committed = [k \in Keys |-> "a"]
    /\ tx = [s \in Sessions |-> CleanTx]
    /\ raw = [f \in Frames |-> IdleFrame]
    /\ ac = IdleAc
    /\ qry = NoQuery
    /\ cur = IdleCur
    /\ ls = IdleLs
    /\ fn = IdleFn
    /\ st = EmptyStore

NextList ==
    \/ ListTables
    \/ ListViews

SpecList == InitList /\ [][NextList]_vars

----------------------------------------------------------------------------
(* SpecRead: the read operations on a connected client, for every input    *)

InitRead ==
    /\ conn = ConnectedClient
    /\ owner = [s \in Sessions |-> "free"]
    /\ committed = [k \in Keys |-> "a"]
    /\ tx = [s \in Sessions |-> CleanTx]
    /\ raw = [f \in Frames |-> IdleFrame]
    /\ ac = IdleAc
    /\ qry = NoQuery
    /\ cur = IdleCur
    /\ ls = IdleLs
    /\ fn = IdleFn
    /\ st = EmptyStore

NextRead ==
    \/ GetPrimaryKey
    \/ GenFilters
    \/ GenSelect
    \/ ListUnsupported
    \/ ParseResult
    \/ SelectTop
    \/ ListTableColumns
    \/ QueryCatchBlock
    \/ ListTableIndexes
    \/ MaybeStripSemicolon
    \/ CsvExport
    \/ ReadDone

SpecRead == InitRead /\ [][NextRead]_vars

----------------------------------------------------------------------------
(* SpecStore: the mutations of the entity list, in any sequence            *)

InitStore ==
    /\ conn = ConnectedClient
    /\ owner = [s \in Sessions |-> "free"]
    /\ committed = [k \in Keys |-> "a"]
    /\ tx = [s \in Sessions |-> CleanTx]
    /\ raw = [f \in Frames |-> IdleFrame]
    /\ ac = IdleAc
    /\ qry = NoQuery
    /\ cur = IdleCur
    /\ ls = IdleLs
    /\ fn = IdleFn
    /\ st = EmptyStore

NextStore ==
    \/ CommitTables
    \/ CommitTable
    \/ CommitUnloadTables

SpecStore == InitStore /\ [][NextStore]_vars

----------------------------------------------------------------------------
(* The store under concurrent dispatches of updateTables: the table
   mutation stands for the column loads that run beside them *)

InitLoad ==
    /\ conn = ConnectedClient
    /\ owner = [s \in Sessions |-> "free"]
    /\ committed = [k \in Keys |-> "a"]
    /\ tx = [s \in Sessions |-> CleanTx]
    /\ raw = [f \in Frames |-> IdleFrame]
    /\ ac = IdleAc
    /\ qry = NoQuery
    /\ cur = IdleCur
    /\ ls = IdleLs
    /\ fn = IdleFn
    /\ st = EmptyStore

NextLoad ==
    \/ \E d \in Dispatches : UpdateTables(d)
    \/ \E d \in Dispatches : UpdateTablesAwait(d)
    \/ \E d \in Dispatches : UpdateTablesColumns(d)
    \/ CommitTable

SpecLoad == InitLoad /\ [][NextLoad]_vars

----------------------------------------------------------------------------
(* SpecPool: getTableProperties and a cancelable query running side by     *)
(* side on one connected client.  The query is one valid SELECT and the    *)
(* pool stays open, so that no statement fails.                            *)

InitPool ==
    /\ conn = ConnectedClient
    /\ owner = [s \in Sessions |-> "free"]
    /\ committed = [k \in Keys |-> "a"]
    /\ tx = [s \in Sessions |-> CleanTx]
    /\ raw = [f \in Frames |-> IdleFrame]
    /\ ac = IdleAc
    /\ qry = NoQuery
    /\ cur = IdleCur
    /\ ls = IdleLs
    /\ fn = IdleFn
    /\ st = EmptyStore

NextPool ==
    \/ GetTableProperties
    \/ ListTableIndexesColumns
    \/ GetTablePropertiesSettle
    \/ ReadDone
    \/ Query /\ qry'.n <= 1 /\ qry'.text = <<Stmt("select", 1, "", TRUE)>>
    \/ QueryExecute
    \/ QueryGetConnection
    \/ QueryCancel
    \/ QueryReturn
    \/ \E f \in Frames : rawExecuteQuery(f)

SpecPool == InitPool /\ [][NextPool]_vars

----------------------------------------------------------------------------
(* Properties of applyChanges and rawExecuteQuery, checked under SpecBatch *)

\* C1: if a statement of the batch of applyChanges fails, the call fails (it
\* never returns) and nothing of the batch is committed: the committed rows
\* stay what they were before the call, and once the call has failed every
\* session sees exactly those rows.
C1_FailedBatchCommitsNothing ==
    /\ (ac.pc # "idle" /\ raw["f1"].failed) =>
            /\ ac.pc \in {"await", "failed"}
            /\ committed = ac.pre
    /\ ac.pc = "failed" =>
            /\ raw["f1"].failed
            /\ \A s \in Sessions : View(s) = ac.pre

\* a failed call in which a statement that changed a row ran before the
\* failing one
C1_Witness ==
    /\ ac.pc = "failed"
    /\ \E i \in 1..Len(raw["f1"].results) : raw["f1"].results[i].result.rowsAffected = 1

\* C2: a successful applyChanges with n >= 1 updates returns exactly n
\* results, the results of the n reselects, which are the last n results of
\* the batch in update order.
C2_ReturnsTheReselects ==
    (ac.pc = "returned" /\ Len(ac.changes.updates) >= 1) =>
        LET n == Len(ac.changes.updates)
            results == raw["f1"].results
        IN  /\ Len(ac.ret) = n
            /\ ac.ret = SubSeq(results, Len(results) - n + 1, Len(results))

\* C8: one rawExecuteQuery call takes one session, sends its statements on
\* it in submission order, each only after the one before it has completed,
\* returns one result per classified statement in that order, and commits
\* once, after the last statement.
C8_OneSessionInOrderOneCommit ==
    LET F == raw["f1"]
    IN  /\ F.acquired <= 1
        /\ F.pc \notin {"idle", "getConnection"} => F.acquired = 1
        /\ Cardinality({s \in Sessions : owner[s] = "f1"}) <= 1
        /\ Len(F.sent) <= Len(F.infos)
        /\ \A i \in 1..Len(F.sent) :
              /\ F.sent[i].session = F.c
              /\ F.sent[i].text[1] = F.infos[i].text[1]
        /\ Len(F.sent) - Len(F.results) \in {0, 1}
        /\ \A i \in 1..Len(F.results) : F.results[i].info = F.infos[i]
        /\ F.commits <= 1
        /\ F.commits = 1 => Len(F.results) = Len(F.infos)
        /\ F.pc = "returned" => (Len(F.results) = Len(F.infos) /\ F.commits = 1)

\* a call that has returned after running several statements
C8_Witness ==
    /\ raw["f1"].pc = "returned"
    /\ Len(raw["f1"].infos) >= 3
    /\ \E i, j \in 1..Len(raw["f1"].infos) :
          raw["f1"].infos[i].text[1] # raw["f1"].infos[j].text[1]

\* C9: the batch of applyChanges holds the inserts, then the updates, then
\* the deletes, then the reselects of the updated rows, each group in the
\* order of the change set, and the statements are sent in that order.
C9_BatchOrder ==
    ac.pc # "idle" =>
        LET ch == ac.changes
            ni == Len(ch.inserts)
            nu == Len(ch.updates)
            nd == Len(ch.deletes)
            B == raw["f1"].infos
        IN  /\ Len(B) = ni + nu + nd + nu
            /\ \A i \in 1..ni :
                  /\ B[i].text[1].kind = "insert"
                  /\ B[i].text[1].key = ch.inserts[i].key
                  /\ B[i].text[1].val = ch.inserts[i].val
            /\ \A i \in 1..nu :
                  /\ B[ni + i].text[1].kind = "update"
                  /\ B[ni + i].text[1].key = ch.updates[i].key
                  /\ B[ni + i].text[1].val = ch.updates[i].val
            /\ \A i \in 1..nd :
                  /\ B[ni + nu + i].text[1].kind = "delete"
                  /\ B[ni + nu + i].text[1].key = ch.deletes[i].key
            /\ \A i \in 1..nu :
                  /\ B[ni + nu + nd + i].text[1].kind = "select"
                  /\ B[ni + nu + nd + i].text[1].key = ch.updates[i].key
            /\ \A i \in 1..Len(raw["f1"].sent) :
                  raw["f1"].sent[i].text[1] = B[i].text[1]

\* a returned call whose change set had an insert, an update and a delete
C9_Witness ==
    /\ ac.pc = "returned"
    /\ Len(ac.changes.inserts) >= 1
    /\ Len(ac.changes.updates) >= 1
    /\ Len(ac.changes.deletes) >= 1
    /\ Len(raw["f1"].sent) = 4

----------------------------------------------------------------------------
(* Properties of the cancelable query, checked under SpecQuery *)

\* C3: when cancel() is called after execute() has started and before the
\* engine has completed the statements, execute() ends canceled: it
\* delivers neither the rows nor the error of the query.
C3_CancelBeforeCompletionEndsCanceled ==
    (qry.pc = "done" /\ qry.cancelAt \in {"beforeConnection", "running"}) =>
        /\ qry.reportedCanceled
        /\ ~qry.delivered
        /\ ~qry.thrown

\* C4: execute() has exactly one final outcome, a result, an error or
\* canceled, however cancel() interleaves with it; in particular no
\* execution delivers a result and is reported canceled too, and nothing
\* is delivered or reported before execute() has ended.
C4_ExactlyOneOutcome ==
    /\ ~(qry.delivered /\ qry.reportedCanceled)
    /\ ~(qry.delivered /\ qry.thrown)
    /\ ~(qry.thrown /\ qry.reportedCanceled)
    /\ qry.pc = "done" <=> (qry.delivered \/ qry.thrown \/ qry.reportedCanceled)

\* an execution that ended after cancel() had arrived while its statements
\* were running
C4_Witness ==
    /\ qry.pc = "done"
    /\ qry.cancelAt = "running"
    /\ qry.delivered

\* C21: when cancel() is called while the statements of the query are
\* executing, connection.break() goes to the session that executes them.
C21_BreakReachesExecutingSession ==
    [][(qry'.breakOn # qry.breakOn /\ raw["f1"].pc = "executing") =>
          qry'.breakOn = raw["f1"].c]_vars

\* no client operation is running and no cursor is open
NoOperationInFlight ==
    /\ qry.pc \in {"none", "created", "done"}
    /\ ac.pc \in {"idle", "returned", "failed"}
    /\ \A f \in Frames : raw[f].pc \in {"idle", "returned", "threw"}
    /\ \A c \in CursorIds : cur[c].state # "Open"

\* C5: every session an operation takes from the pool is back in the pool
\* when the operation has ended, whichever way it ended: with no operation
\* in flight and no cursor open, no session is checked out.
C5_SessionsReturned ==
    NoOperationInFlight => CheckedOut = {}

\* C28: of queries executed one after the other on a connected client, each
\* runs to its end: an execute() that has started can always take its next
\* step, and each query starts with every session of the pool free, the
\* queries before it having given back what they took.
C28_SequentialQueriesComplete ==
    /\ qry.pc \in {"getConnection", "await"} =>
          ENABLED (QueryGetConnection \/ rawExecuteQuery("f1") \/ QueryReturn \/ QueryCatch)
    /\ qry.pc = "created" => Cardinality(FreeSessions) = poolMax

\* C29: when cancel() was called before execute() was called, or before
\* execute() had its session, so before any statement of the query was
\* sent, and execute() has ended canceled, then no statement of the query
\* was sent to the engine and nothing was committed for it.
C29_CanceledBeforeSendExecutesNothing ==
    (/\ qry.pc = "done"
     /\ qry.reportedCanceled
     /\ qry.cancelAt \in {"beforeExecute", "beforeConnection"}) =>
        /\ raw["f1"].sent = <<>>
        /\ raw["f1"].commits = 0

----------------------------------------------------------------------------
(* Properties of the cursors and of disconnect, checked under SpecConn *)

\* C6: a cursor holds one dedicated session from the time it is opened, and
\* when it is closed, by an explicit close, by exhaustion or by both, that
\* session has been released exactly once.
C6_CursorSessionReleasedOnce ==
    \A c \in CursorIds :
        LET held == {s \in Sessions : owner[s] = c}
        IN  /\ cur[c].state = "Open" =>
                  (held = {cur[c].session} /\ cur[c].releases = 0)
            /\ cur[c].state = "Closed" => (held = {} /\ cur[c].releases = 1)
            /\ cur[c].state \notin {"Open", "Closed"} =>
                  (held = {} /\ cur[c].releases = 0)

\* a cursor that closed on exhaustion and was then closed by its reader,
\* next to one closed by its reader alone
C6_Witness ==
    /\ \E c \in CursorIds :
          cur[c].state = "Closed" /\ cur[c].exhausted /\ cur[c].closes >= 1
    /\ \E c \in CursorIds :
          cur[c].state = "Closed" /\ ~cur[c].exhausted /\ cur[c].via = "selectTopStream"

\* C7: disconnect() always ends with the client Disconnected, also when
\* closing the pool fails.
C7_DisconnectEndsDisconnected ==
    conn.dpc \in {"done", "threw"} => conn.state = "Disconnected"

\* C22: no error of the driver is swallowed: an error raised by the driver
\* during connect is not dropped, and a call of rawExecuteQuery in which a
\* statement, the commit or the acquisition of the session failed ends by
\* throwing.
C22_DriverErrorsReachTheCaller ==
    /\ ~conn.swallowed
    /\ \A f \in Frames :
          (raw[f].failed /\ raw[f].pc # "close") => raw[f].pc = "threw"

----------------------------------------------------------------------------
(* Properties of the list operations, checked under SpecList *)

\* C10: listTables and listViews return exactly the entities of the scoped
\* schema whose name is in 'only' (when given) and not in 'ignore' (when
\* given).
C10_OnlyAndNotIgnore ==
    ls.op # "none" =>
        LET rows == IF ls.op = "listTables" THEN ALL_TABLES ELSE ALL_VIEWS
            type == IF ls.op = "listTables" THEN "table" ELSE "view"
            f == ls.filter
        IN  ls.result =
              {e \in [schema : Schemas, name : Names, entityType : {type}] :
                  /\ [OWNER |-> e.schema, NAME |-> e.name] \in rows
                  /\ Given(f.schema) => e.schema = toUpperCase(The(f.schema))
                  /\ Given(f.only) => e.name \in The(f.only)
                  /\ Given(f.ignore) => e.name \notin The(f.ignore)}

----------------------------------------------------------------------------
(* Properties of the read operations, checked under SpecRead *)

\* C11: getPrimaryKey returns a column name if and only if getPrimaryKeys
\* returned exactly one entry, and then that entry's column name; for no
\* entry or for two or more it returns null.
C11_SingleKeyOrNull ==
    fn.op = "getPrimaryKey" =>
        /\ fn.ret # Null <=> Len(fn.all) = 1
        /\ Len(fn.all) = 1 => fn.ret = fn.all[1].columnName
        /\ Len(fn.all) # 1 => fn.ret = Null

\* getPrimaryKey on a table with a composite primary key
C11_Witness ==
    /\ fn.op = "getPrimaryKey"
    /\ Len(fn.all) = 2
    /\ fn.ret = Null

\* C12: the query of genSelect holds the OFFSET / FETCH NEXT clause, with
\* the offset and the limit given, if and only if both offset and limit
\* are numbers; with one of them or both left out it holds no such clause.
C12_PaginationBothOrNeither ==
    fn.op = "genSelect" =>
        LET paginated == \E i \in 1..Len(fn.ret) : fn.ret[i] \in {Sql("OFFSET"), Sql("ROWS FETCH NEXT")}
            n == Len(fn.ret)
        IN  /\ paginated <=> (fn.offset.t = "number" /\ fn.limit.t = "number")
            /\ paginated =>
                  SubSeq(fn.ret, n - 4, n) =
                      <<Sql("OFFSET"), Sql(fn.offset.v), Sql("ROWS FETCH NEXT"),
                        Sql(fn.limit.v), Sql("ROWS ONLY")>>

\* a select with a numeric offset and no limit
C12_Witness ==
    /\ fn.op = "genSelect"
    /\ fn.offset.t = "number"
    /\ fn.limit.t = "undefined"
    /\ Len(fn.ret) > 0

\* C13: genFilters renders an entry of type "is" as <quoted field> IS NULL
\* and one of type "is not" as <quoted field> IS NOT NULL, whatever value
\* the entry carries; an entry of another type renders as the quoted field,
\* its own operator and its escaped value(s); the filter string holds the
\* rendering of every entry.
C13_IsNullIgnoresValue ==
    (fn.op = "genFilters" /\ Given(fn.filters)) =>
        \A i \in 1..Len(The(fn.filters)) :
            LET item == The(fn.filters)[i]
                r == fn.allFilters[i]
                strings == SelectSeq(r, LAMBDA piece : piece[1] = "string")
            IN  /\ item.type = "is" =>
                      r = <<<<"identifier", item.field>>, <<"sql", "IS">>, <<"sql", "NULL">>>>
                /\ item.type = "is not" =>
                      r = <<<<"identifier", item.field>>, <<"sql", "IS NOT">>, <<"sql", "NULL">>>>
                /\ item.type \notin {"is", "is not"} =>
                      /\ r[1] = <<"identifier", item.field>>
                      /\ r[2] = <<"sql", IF item.type = "in" THEN "IN" ELSE item.type>>
                      /\ strings = [k \in 1..Len(item.value.items) |->
                                       <<"string", item.value.items[k]>>]
                /\ \E k \in 1..Len(fn.ret) : SubSeq(fn.ret, k, k + Len(r) - 1) = r

\* a filter list with an "is not" entry that carries a value
C13_Witness ==
    /\ fn.op = "genFilters"
    /\ Given(fn.filters)
    /\ \E i \in 1..Len(The(fn.filters)) :
          /\ The(fn.filters)[i].type = "is not"
          /\ The(fn.filters)[i].value.items = <<"x">>
    /\ Len(fn.ret) > 0

\* C15: every list operation for a concept the dialect does not have
\* (listMaterializedViews, listMaterializedViewColumns, listRoutines,
\* listCollations) returns the empty list and does not fail.
C15_UnsupportedListsAreEmpty ==
    fn.op \in {"listMaterializedViews", "listMaterializedViewColumns",
               "listRoutines", "listCollations"} =>
        /\ ~fn.threw
        /\ fn.ret = <<>>

\* C18: the fields of a QueryResult built by parseResult have the pairwise
\* different ids c0, c1, ... even when columns share a name; every row
\* holds exactly one value per field, keyed by the field ids in the order
\* of fields, and rowCount is the number of rows.
C18_DistinctFieldIdsKeyTheRows ==
    fn.op = "parseResult" =>
        LET fields == fn.ret.fields
            rows == fn.ret.rows
        IN  /\ \A i \in 1..Len(fields) : fields[i].id = <<"c", i - 1>>
            /\ \A i, j \in 1..Len(fields) : fields[i].id = fields[j].id => i = j
            /\ Given(fn.result.metaData) =>
                  /\ Len(fields) = Len(The(fn.result.metaData))
                  /\ Len(rows) = Len(The(fn.result.rows))
            /\ \A r \in 1..Len(rows) :
                  /\ Len(rows[r]) = Len(fields)
                  /\ \A k \in 1..Len(fields) :
                        rows[r][k] = <<fields[k].id, The(fn.result.rows)[r][k]>>
            /\ fn.ret.rowCount = Len(rows)

\* a result of two rows whose two columns have the same name
C18_Witness ==
    /\ fn.op = "parseResult"
    /\ Given(fn.result.metaData)
    /\ The(fn.result.metaData) = <<"ID", "ID">>
    /\ fn.ret.rowCount = 2

\* C19: the fields of a selectTop result are the keys of every returned
\* row, in the same order, and every row holds one value for every column
\* of the engine's result: no column of the result is lost.
C19_FieldsMatchRowsNoColumnLost ==
    fn.op = "selectTop" =>
        \A r \in 1..Len(fn.result) :
            LET row == fn.result[r]
                columns == The(fn.data.metaData)
            IN  /\ fn.fields = [k \in 1..Len(row) |-> row[k][1]]
                /\ Len(row) = Len(columns)
                /\ \A k \in 1..Len(columns) :
                      row[k] = <<columns[k], The(fn.data.rows)[r][k]>>

\* C20: listTableColumns returns the columns the engine returned for the
\* table, each once, in ascending ordinalPosition order (a column without
\* a position after those with one), whatever the order of the rows of the
\* engine.
C20_ColumnsSortedByOrdinalPosition ==
    fn.op = "listTableColumns" =>
        LET ret == fn.ret
        IN  /\ Len(ret) = Len(fn.all)
            /\ \A k \in 1..Len(fn.all) :
                  \E i \in 1..Len(ret) :
                      /\ ret[i].columnName = fn.all[k].COLUMN_NAME
                      /\ ret[i].schemaName = fn.all[k].OWNER
                      /\ ret[i].tableName = fn.all[k].TABLE_NAME
                      /\ ret[i].ordinalPosition = fn.all[k].COLUMN_ID
            /\ \A i, j \in 1..Len(ret) :
                  i < j =>
                     /\ Given(ret[j].ordinalPosition) => Given(ret[i].ordinalPosition)
                     /\ Given(ret[j].ordinalPosition) =>
                           The(ret[i].ordinalPosition) <= The(ret[j].ordinalPosition)

\* the engine returned the second column of HR.A before the first
C20_Witness ==
    /\ fn.op = "listTableColumns"
    /\ Len(fn.all) >= 2
    /\ fn.all[1].COLUMN_ID = {2}
    /\ fn.all[2].COLUMN_ID = {1}
    /\ fn.ret[1].ordinalPosition = {1}

\* C23: when the execution of a query failed and cancel() was not requested,
\* execute() throws the error object it caught; the message of that error is
\* the caught message followed by the quoting hint exactly when the caught
\* message contains 'table or view does not exist', and is the caught
\* message unchanged in every other case.
C23_RethrowsWithHintOnlyForMissingTable ==
    (fn.op = "catch" /\ ~fn.canceling) =>
        /\ fn.ret.thrown
        /\ fn.ret.err.id = fn.err.id
        /\ LET known == /\ Given(fn.err.message)
                        /\ "table or view does not exist" \in
                              {The(fn.err.message)[i] : i \in 1..Len(The(fn.err.message))}
           IN  /\ known => /\ Given(fn.ret.err.message)
                           /\ The(fn.ret.err.message) = The(fn.err.message) \o <<Hint>>
               /\ ~known => fn.ret.err.message = fn.err.message

C23_Witness ==
    /\ fn.op = "catch"
    /\ ~fn.canceling
    /\ fn.ret.thrown
    /\ Given(fn.err.message)
    /\ Len(The(fn.err.message)) = 3
    /\ The(fn.ret.err.message)[4] = Hint

\* C24: listTableIndexes returns one entry per index row of its first
\* query, in the order of those rows, and the columns of each entry are
\* exactly the columns of that index (the index of that name owned by that
\* schema), by ascending column position.
C24_EachIndexCarriesItsOwnColumns ==
    fn.op = "listTableIndexes" =>
        /\ Len(fn.ret) = Len(fn.response)
        /\ \A i \in 1..Len(fn.ret) :
              LET e == fn.ret[i]
                  own == {c \in ALL_IND_COLUMNS :
                             /\ c.INDEX_OWNER = e.schema
                             /\ c.TABLE_NAME = e.table
                             /\ c.INDEX_NAME = e.name}
              IN  /\ e.name = fn.response[i].INDEX_NAME
                  /\ e.schema = fn.response[i].OWNER
                  /\ Given(e.columns)
                  /\ Len(The(e.columns)) = Cardinality(own)
                  /\ \A k \in 1..Len(The(e.columns)) :
                        \E c \in own : /\ c.COLUMN_POSITION = k
                                       /\ c.COLUMN_NAME = The(e.columns)[k].name
                                       /\ c.DESCEND = The(e.columns)[k].order

\* C25: the text sent for a statement is the statement's text without its
\* last separator and the white space after it when the statement is not an
\* anonymous block and its text ends, white space aside, with a separator;
\* only that one separator goes, and in every other case, every anonymous
\* block among them, the text is sent unchanged.
C25_SeparatorStrippedUnlessAnonymousBlock ==
    fn.op = "maybeStripSemicolon" =>
        LET q == fn.query
            ends == {n \in 1..Len(q) :
                        q[n] = Semi /\ \A m \in (n + 1)..Len(q) : q[m] = Space}
        IN  IF fn.i.executionType # "ANON_BLOCK" /\ ends # {}
            THEN \E n \in ends : fn.ret = SubSeq(q, 1, n - 1)
            ELSE fn.ret = q

C25_Witness ==
    /\ fn.op = "maybeStripSemicolon"
    /\ fn.i.executionType = "LISTING"
    /\ fn.query = <<Stmt("select", 1, "", TRUE), Semi, Semi, Space>>
    /\ fn.ret = <<Stmt("select", 1, "", TRUE), Semi>>

\* C26: in count mode the query of genSelect has the one projection
\* 'COUNT(1) as TOTAL', whatever columns were passed, and from FROM on it is
\* the query genSelect builds for the same arguments without count mode,
\* with its ORDER BY and pagination clauses.
C26_CountKeepsOrderAndPagination ==
    (fn.op = "genSelect" /\ fn.count) =>
        LET plain == genSelect(fn.table, fn.offset, fn.limit, fn.orderBy, fn.filters,
                               fn.schema, FALSE, fn.selects)
            from == CHOOSE k \in 1..Len(plain) :
                       plain[k] = Sql("FROM") /\ \A j \in 1..(k - 1) : plain[j] # Sql("FROM")
            clauses == genOrderByString(fn.orderBy) \o offsetString(fn.offset, fn.limit)
        IN  /\ SubSeq(fn.ret, 1, 2) = <<Sql("SELECT"), Sql("COUNT(1) as TOTAL")>>
            /\ SubSeq(fn.ret, 3, Len(fn.ret)) = SubSeq(plain, from, Len(plain))
            /\ Len(fn.ret) >= 2 + Len(clauses)
            /\ SubSeq(fn.ret, Len(fn.ret) - Len(clauses) + 1, Len(fn.ret)) = clauses

C26_Witness ==
    /\ fn.op = "genSelect"
    /\ fn.count
    /\ fn.selects = <<"ID", "NAME">>
    /\ Given(fn.orderBy)
    /\ The(fn.orderBy) # <<>>
    /\ fn.offset.t = "number"
    /\ fn.limit.t = "number"
    /\ fn.ret[2] = Sql("COUNT(1) as TOTAL")
    /\ fn.ret[Len(fn.ret)] = Sql("ROWS ONLY")

\* C27: the CSV exporter writes one line per row of a chunk, in the order of
\* the rows; it has a header exactly when the header option is set and there
\* is a first row; and in every written row whose keys are in the order of
\* the first row's keys, the i-th field is the value of the key that is the
\* i-th field of the header.
C27_HeaderOrderIsValueOrder ==
    fn.op = "csvExport" =>
        LET Field(line, i) == line[2 * i - 1]
            Value(row, key) == LET i == CHOOSE k \in 1..Len(row) : row[k][1] = key
                               IN  IF row[i][2] = Null THEN "" ELSE row[i][2]
        IN  /\ Len(fn.written) = Len(fn.data)
            /\ \A r \in 1..Len(fn.data) : Len(fn.written[r]) = 2 * Len(fn.data[r]) - 1
            /\ Given(fn.header) <=> (fn.outputOptions.header /\ Given(fn.firstRow))
            /\ Given(fn.header) =>
                  \A r \in 1..Len(fn.data) :
                     [i \in 1..Len(fn.data[r]) |-> fn.data[r][i][1]]
                        = [i \in 1..Len(The(fn.firstRow)) |-> The(fn.firstRow)[i][1]]
                     => \A i \in 1..Len(fn.data[r]) :
                           Field(fn.written[r], i)
                              = Value(fn.data[r], Field(The(fn.header), i))
            /\ \A r \in 1..Len(fn.data) : \A i \in 1..Len(fn.data[r]) :
                  Field(fn.written[r], i) = Value(fn.data[r], fn.data[r][i][1])

C27_Witness ==
    /\ fn.op = "csvExport"
    /\ fn.header = {<<"NAME", ";", "ID">>}
    /\ Len(fn.data) = 2
    /\ fn.written = <<<<"", ";", "2">>, <<"x", ";", "1">>>>

----------------------------------------------------------------------------
(* Properties of the pool under concurrent calls, checked under SpecPool *)

\* C16: at most poolMax sessions are checked out; the calls that hold a
\* session hold pairwise different sessions; and a session goes to a call
\* only if it was free before, so that an acquire made while every session
\* is checked out completes only after a release.
C16_PoolHandsOutFreeSessionsOnly ==
    [][LET Holding(r) == {f \in Frames : r[f].pc \in {"send", "executing", "commit", "close"}}
       IN  /\ Cardinality({s \in Sessions : owner'[s] # "free"}) <= poolMax
           /\ \A f, g \in Holding(raw') : f # g => raw'[f].c # raw'[g].c
           /\ \A f \in Holding(raw') :
                 /\ owner'[raw'[f].c] = f
                 /\ qry'.pc \in {"await", "done"} => raw'[f].c # qry'.connection
           /\ \A f \in Holding(raw') \ Holding(raw) : owner[raw'[f].c] = "free"
           /\ (qry.pc = "getConnection" /\ qry'.pc = "await") =>
                 owner[qry'.connection] = "free"
           /\ \A s \in Sessions :
                 owner'[s] # owner[s] =>
                     \/ owner[s] = "free"
                     \/ owner'[s] = "free"
                     \/ owner[s] = "query" /\ owner'[s] = "leaked"]_vars

\* every session is checked out and a call is waiting for one
C16_Witness ==
    /\ FreeSessions = {}
    /\ \E f \in Frames : raw[f].pc = "getConnection"
    /\ \E g \in Frames : raw[g].pc = "executing"

\* C17: no session has two statements in flight at the same time, whatever
\* the interleaving of the calls getTableProperties starts together, the
\* statements of a query and cancel().
C17_OneStatementPerSession ==
    \A s \in Sessions :
        Cardinality({f \in Frames : raw[f].pc = "executing" /\ raw[f].c = s}) <= 1

\* the statement of a query and the statements of two introspection calls
\* are in flight while cancel() has been called on the running query
C17_Witness ==
    /\ qry.cancelAt = "running"
    /\ raw["f1"].pc = "executing"
    /\ Cardinality({f \in {"f2", "f3", "f4"} : raw[f].pc = "executing"}) >= 2

----------------------------------------------------------------------------
(* Properties of the store, checked under SpecStore *)

\* C14: when the tables mutation gets a list while state.tables is not
\* empty, every entity of the new value of state.tables that matches a
\* stored entity whose columns had been loaded has that column list.
C14_KeepsLoadedColumns ==
    [][(st'.mutation = "tables" /\ Len(st.tables) > 0) =>
          \A i \in 1..Len(st'.tables) : \A j \in 1..Len(st.tables) :
              (/\ tablesMatch(st.tables[j], st'.tables[i])
               /\ Given(st.tables[j].columns)
               /\ The(st.tables[j].columns) # <<>>)
              => st'.tables[i].columns = st.tables[j].columns]_vars

\* C31: as long as the lists passed to the tables mutation have no two
\* entries of one identity (schema, name, entityType), state.tables has no
\* two entries of one identity after any of the mutations tables, table and
\* unloadTables, and after a tables mutation the identities of state.tables
\* are those of the list passed.
C31_OneEntryPerIdentity ==
    [][(Passed(st.tables).distinct /\ st'.passed.distinct) =>
          /\ Passed(st'.tables).distinct
          /\ st'.mutation = "tables" => Passed(st'.tables).ids = st'.passed.ids]_vars

C31_Witness ==
    /\ st.mutation = "tables"
    /\ st.passed.distinct
    /\ Len(st.tables) = 2
    /\ st.tables[1].entityType = "view"
    /\ st.tables[1].columns = {<<>>}
    /\ st.tables[2].columns = {<<"c1">>}

----------------------------------------------------------------------------
(* The appdb save handler, one call at a time *)

InitAppDb ==
    /\ conn = ConnectedClient
    /\ owner = [s \in Sessions |-> "free"]
    /\ committed = [k \in Keys |-> "a"]
    /\ tx = [s \in Sessions |-> CleanTx]
    /\ raw = [f \in Frames |-> IdleFrame]
    /\ ac = IdleAc
    /\ qry = NoQuery
    /\ cur = IdleCur
    /\ ls = IdleLs
    /\ fn = IdleFn
    /\ st = EmptyStore

NextAppDb ==
    \/ AppDbSave
    \/ ReadDone

SpecAppDb == InitAppDb /\ [][NextAppDb]_vars

----------------------------------------------------------------------------
(* The connect action of the store *)

InitStoreConnect ==
    /\ conn = ConnectedClient
    /\ owner = [s \in Sessions |-> "free"]
    /\ committed = [k \in Keys |-> "a"]
    /\ tx = [s \in Sessions |-> CleanTx]
    /\ raw = [f \in Frames |-> IdleFrame]
    /\ ac = IdleAc
    /\ qry = NoQuery
    /\ cur = IdleCur
    /\ ls = IdleLs
    /\ fn = IdleFn
    /\ st = EmptyStore

NextStoreConnect ==
    \/ SetUsername
    \/ StoreConnect
    \/ StoreConnectAwait
    \/ UpdateTablesAwait(1)
    \/ StoreDisconnect

SpecStoreConnect == InitStoreConnect /\ [][NextStoreConnect]_vars

\* C34: a dispatch of connect while state.username is unset throws 'No
\* username provided', sends no 'conn/create' request and changes no field
\* of the state; and connected goes from false to true only in a dispatch
\* whose 'conn/create' has succeeded.
C34_NoUsernameNoConnect ==
    [][/\ (/\ st.connecting.pc \in {"idle", "done", "failed"}
           /\ st'.connecting # st.connecting
           /\ ~Given(st.username))
          => /\ st'.connecting.pc = "failed"
             /\ st'.connecting.error = "No username provided"
             /\ st'.connecting.sent = 0
             /\ [st' EXCEPT !.connecting = st.connecting] = st
             /\ ~st'.connected
       /\ (~st.connected /\ st'.connected) => st.connecting.created]_vars

C34_Witness ==
    /\ ~Given(st.username)
    /\ st.connecting.error = "No username provided"
    /\ st.connecting.sent = 0
    /\ ~st.connected

----------------------------------------------------------------------------
(* The pin actions of the store *)

InitPins ==
    /\ conn = ConnectedClient
    /\ owner = [s \in Sessions |-> "free"]
    /\ committed = [k \in Keys |-> "a"]
    /\ tx = [s \in Sessions |-> CleanTx]
    /\ raw = [f \in Frames |-> IdleFrame]
    /\ ac = IdleAc
    /\ qry = NoQuery
    /\ cur = IdleCur
    /\ ls = IdleLs
    /\ fn = IdleFn
    /\ st = EmptyStore

NextPins ==
    \/ PinTable
    \/ UnpinTable
    \/ PinRoutine
    \/ UnpinRoutine

SpecPins == InitPins /\ [][NextPins]_vars

\* C32: after unpinRoutine the routine is unpinned, also when pinRoutine
\* came before: its pinned field is false and the mutation committed for it
\* is removePinned, as after unpinTable for a table.
C32_UnpinRoutineUnpins ==
    st.dispatched.action \in {"unpinRoutine", "unpinTable"} =>
        /\ st.pinned[The(st.dispatched.entity)] = {FALSE}
        /\ st.dispatched.commit = "removePinned"

----------------------------------------------------------------------------
(* Properties of the store under concurrent dispatches, checked under
   SpecLoad *)

\* C30: state.tablesLoading is not null while a dispatch of updateTables is
\* in flight, and is null when every dispatch has ended, in whatever order
\* the dispatches take their steps.
C30_LoadingWhileAnyInFlight ==
    /\ InFlight # {} => st.tablesLoading # Null
    /\ InFlight = {} => st.tablesLoading = Null

====
